---------------------------- MODULE Spec2Model ----------------------------
(***************************************************************************)
(* A model of the tool execution core of CodeAgentDemo: the command tool   *)
(* (src/src/tools/bash.py), the text editor tool                           *)
(* (src/src/tools/text_editor.py) and the directory tools (ls.py, tree.py, *)
(* grep.py).                                                               *)
(*                                                                         *)
(* Python strings are sequences of one-character strings, so that          *)
(* substring search, replace, split and splitlines are computed as the     *)
(* interpreter computes them.  A tool's returned string is a record: the   *)
(* template of the f-string that produced it (field text) and the values   *)
(* substituted into it (fields path, num, body).  A backquote of a source  *)
(* string is written as a single quote.                                    *)
(***************************************************************************)
EXTENDS Integers, Sequences, FiniteSets, TLC

VARIABLES
    os_name,          \* os.name of the host: "posix" or "nt"
    disk,             \* the files the editor works on: path -> bytes, NoFile or IsDir
    result,           \* the string the last tool call returned
    raised,           \* the exception that left the last tool call, "" when none
    calls,            \* the tool calls made so far, with their arguments
    command_history,  \* bash.py _command_history, each entry the ordinal of its call
    last_result,      \* the result dict of the last command call
    spawn_calls,      \* subprocess.run calls made by the last command call
    n_calls,          \* number of command calls made so far
    dirs,             \* the directory tree the directory tools work on
    _open_files,      \* EditorTabs._open_files: path string -> displayed content
    _current_file,    \* EditorTabs._current_file, None on the welcome page
    text_area,        \* the text of the TextArea #editor-content
    tabs,             \* the paths that have a tab button in #tabs-bar
    messages,         \* ChatView.messages
    tasks,            \* the _call_handle_tool_result tasks created and not yet run
    event,            \* the handler that ran last, with its input
    _is_generating,   \* CodeAgentConsole._is_generating
    workers           \* the _handle_user_input workers created so far

consoleVars == <<_open_files, _current_file, text_area, tabs, messages, tasks,
                 event, _is_generating, workers>>

vars == <<os_name, disk, result, raised, calls, command_history, last_result,
          spawn_calls, n_calls, dirs, consoleVars>>

-----------------------------------------------------------------------------
(* Bounds of the model *)

MaxLen == 3

LF == "\n"
CR == "\r"

\* The characters file contents and tool arguments are made of.
Chars == {"a", "b", LF, CR}

RECURSIVE TextsOfLen(_)
TextsOfLen(n) ==
    IF n = 0 THEN {<<>>}
    ELSE {<<c>> \o t : c \in Chars, t \in TextsOfLen(n - 1)}

TextsUpTo(n) == UNION {TextsOfLen(k) : k \in 0..n}

Texts == TextsUpTo(MaxLen)

-----------------------------------------------------------------------------
(* Python str operations *)

Min(a, b) == IF a < b THEN a ELSE b

\* s[i:] with a 1-based i
Tail_(s, i) == SubSeq(s, i, Len(s))

StartsWith(s, p) == Len(p) <= Len(s) /\ SubSeq(s, 1, Len(p)) = p

EndsWith(s, p) ==
    Len(p) <= Len(s) /\ SubSeq(s, Len(s) - Len(p) + 1, Len(s)) = p

\* str.find: the least 1-based index at which sub starts in s, 0 when none
Find(s, sub) ==
    LET hits == {i \in 1..(Len(s) - Len(sub) + 1) : SubSeq(s, i, i + Len(sub) - 1) = sub}
    IN  IF hits = {} THEN 0 ELSE CHOOSE i \in hits : \A j \in hits : i <= j

\* sub in s
Contains(s, sub) == sub = <<>> \/ Find(s, sub) > 0

\* str.count: non-overlapping occurrences scanned from the left; len+1 for ""
RECURSIVE PyCount(_, _)
PyCount(s, sub) ==
    IF sub = <<>> THEN Len(s) + 1
    ELSE LET i == Find(s, sub)
         IN  IF i = 0 THEN 0
             ELSE 1 + PyCount(Tail_(s, i + Len(sub)), sub)

RECURSIVE Interleave(_, _)
Interleave(s, new) ==
    IF s = <<>> THEN new
    ELSE new \o <<Head(s)>> \o Interleave(Tail(s), new)

\* str.replace(old, new): every non-overlapping occurrence, from the left
RECURSIVE PyReplace(_, _, _)
PyReplace(s, old, new) ==
    IF old = <<>> THEN Interleave(s, new)
    ELSE LET i == Find(s, old)
         IN  IF i = 0 THEN s
             ELSE SubSeq(s, 1, i - 1) \o new
                    \o PyReplace(Tail_(s, i + Len(old)), old, new)

\* str.split(sep) for a non-empty sep: always at least one piece
RECURSIVE PySplit(_, _)
PySplit(s, sep) ==
    LET i == Find(s, sep)
    IN  IF i = 0 THEN <<s>>
        ELSE <<SubSeq(s, 1, i - 1)>> \o PySplit(Tail_(s, i + Len(sep)), sep)

\* sep.join(pieces)
RECURSIVE PyJoin(_, _)
PyJoin(pieces, sep) ==
    IF pieces = <<>> THEN <<>>
    ELSE IF Len(pieces) = 1 THEN pieces[1]
    ELSE pieces[1] \o sep \o PyJoin(Tail(pieces), sep)

\* ''.join(pieces)
RECURSIVE Concat(_)
Concat(pieces) ==
    IF pieces = <<>> THEN <<>> ELSE Head(pieces) \o Concat(Tail(pieces))

\* str.splitlines(keepends): breaks at \n, \r and \r\n; no empty last piece
RECURSIVE PySplitlines(_, _)
PySplitlines(s, keepends) ==
    IF s = <<>> THEN <<>>
    ELSE LET brks == {i \in 1..Len(s) : s[i] \in {LF, CR}}
         IN  IF brks = {} THEN <<s>>
             ELSE LET brk == CHOOSE i \in brks : \A j \in brks : i <= j
                      eol == IF s[brk] = CR /\ brk < Len(s) /\ s[brk + 1] = LF
                             THEN brk + 1 ELSE brk
                      line == SubSeq(s, 1, IF keepends THEN eol ELSE brk - 1)
                  IN  <<line>> \o PySplitlines(Tail_(s, eol + 1), keepends)

\* content.replace('\r\n', '\n').replace('\r', '\n')
NormalizeNewlines(s) == PyReplace(PyReplace(s, <<CR, LF>>, <<LF>>), <<CR>>, <<LF>>)

\* str.endswith(('\n', '\r\n', '\r'))
EndsWithNewline(s) ==
    EndsWith(s, <<LF>>) \/ EndsWith(s, <<CR, LF>>) \/ EndsWith(s, <<CR>>)

-----------------------------------------------------------------------------
(* The files of the text editor tool *)

\* Python None for an optional string argument; "" is <<>>
None == <<"<None>">>

\* disk[p] of a path that names nothing, and of a path that names a directory
NoFile == <<"<no file>">>
IsDir == <<"<directory>">>

FILE_A == <<"/", "a">>
DIR_D == <<"/", "d">>
REL_A == <<"a">>

\* The absolute paths of the model's file system, and the paths a caller may pass
DiskPaths == {FILE_A, DIR_D}
Paths == DiskPaths \cup {REL_A}

\* Path.is_absolute() on a POSIX-style path
is_absolute(path) == path # <<>> /\ path[1] = "/"

exists(fs, path) == path \in DOMAIN fs /\ fs[path] # NoFile
is_dir(fs, path) == path \in DOMAIN fs /\ fs[path] = IsDir
is_file(fs, path) == exists(fs, path) /\ ~is_dir(fs, path)

\* read_file that returns the text as it is on disk
read_file_verbatim(fs, path) == fs[path]

\* TextEditor.read_file: decode, then CRLF and CR become LF
read_file(fs, path) == NormalizeNewlines(fs[path])

\* open(path, 'w', newline='') on Windows without newline='' would translate
\* every LF written once more
write_file_text_mode(fs, path, content) ==
    LET normalized == NormalizeNewlines(content)
        crlf == PyReplace(normalized, <<LF>>, <<CR, LF>>)
    IN  [fs EXCEPT ![path] =
            IF os_name = "nt" THEN PyReplace(crlf, <<LF>>, <<CR, LF>>) ELSE normalized]

\* write_file that writes the content as given
write_file_raw(fs, path, content) == [fs EXCEPT ![path] = content]

\* TextEditor.write_file: line endings to LF, then to CRLF on Windows
write_file(fs, path, content) ==
    LET normalized == NormalizeNewlines(content)
    IN  [fs EXCEPT ![path] =
            IF os_name = "nt" THEN PyReplace(normalized, <<LF>>, <<CR, LF>>)
            ELSE normalized]

\* TextEditor._content_with_line_numbers: f"{i + init_line:>3} | {line}" for
\* each line of splitlines(); a formatted line is its number and its text
_content_with_line_numbers(file_content, init_line) ==
    LET lines == PySplitlines(file_content, FALSE)
    IN  [i \in 1..Len(lines) |-> [num |-> (i - 1) + init_line, line |-> lines[i]]]

\* TextEditor._format_content_with_syntax_highlighting: both branches number
\* the lines of splitlines() from init_line
_format_content_with_syntax_highlighting(file_content, path, init_line) ==
    _content_with_line_numbers(file_content, init_line)

\* TextEditor.validate_path: the message of the ValueError, "" when none
validate_path(command, path) ==
    IF ~is_absolute(path)
    THEN "The path {path} is not an absolute path, it should start with '/'. Do you mean {suggested_path}?"
    ELSE ""

\* TextEditor.view: exc is the message of the ValueError raised, "" when none
view(fs, path, view_range) ==
    IF ~exists(fs, path) THEN [exc |-> "File does not exist: {path}", body |-> <<>>]
    ELSE IF ~is_file(fs, path) THEN [exc |-> "Path is not a file: {path}", body |-> <<>>]
    ELSE
    LET file_content == read_file(fs, path)
    IN  IF view_range = <<>>
        THEN [exc |-> "",
              body |-> _format_content_with_syntax_highlighting(file_content, path, 1)]
        ELSE IF Len(view_range) # 2
        THEN [exc |-> "Invalid 'view_range'. It should be a list of two integers.",
              body |-> <<>>]
        ELSE
        LET file_lines == PySplit(file_content, <<LF>>)
            n_lines_file == Len(file_lines)
            init_line == view_range[1]
            final_line == view_range[2]
        IN  IF init_line < 1 \/ init_line > n_lines_file
            THEN [exc |-> "Invalid 'view_range': {view_range}. The start line '{init_line}' should be within the range of lines in the file: {[1, n_lines_file]}",
                  body |-> <<>>]
            ELSE IF final_line # -1 /\ final_line < init_line
            THEN [exc |-> "Invalid 'view_range': {view_range}. The end line '{final_line}' should be -1 or within the range of lines in the file: {[init_line, n_lines_file]}",
                  body |-> <<>>]
            ELSE
            LET clamped == IF final_line # -1 /\ final_line > n_lines_file
                           THEN n_lines_file ELSE final_line
                sliced == IF clamped = -1
                          THEN PyJoin(SubSeq(file_lines, init_line, n_lines_file), <<LF>>)
                          ELSE PyJoin(SubSeq(file_lines, init_line, clamped), <<LF>>)
            IN  [exc |-> "",
                 body |-> _format_content_with_syntax_highlighting(sliced, path, init_line)]

\* str_replace that replaces the first occurrence only
str_replace_first_only(fs, path, old_str, new_str) ==
    IF ~exists(fs, path)
    THEN [exc |-> "File does not exist: {path}", occurrences |-> 0, fs |-> fs]
    ELSE IF ~is_file(fs, path)
    THEN [exc |-> "Path is not a file: {path}", occurrences |-> 0, fs |-> fs]
    ELSE
    LET file_content == read_file(fs, path)
        i == Find(file_content, old_str)
        new == IF new_str = None THEN <<>> ELSE new_str
        new_content == IF old_str = <<>> THEN new \o file_content
                       ELSE SubSeq(file_content, 1, i - 1) \o new
                              \o Tail_(file_content, i + Len(old_str))
    IN  IF ~Contains(file_content, old_str)
        THEN [exc |-> "String not found in file: {path}", occurrences |-> 0, fs |-> fs]
        ELSE [exc |-> "", occurrences |-> PyCount(file_content, old_str),
              fs |-> write_file(fs, path, new_content)]

\* TextEditor.str_replace
str_replace(fs, path, old_str, new_str) ==
    IF ~exists(fs, path)
    THEN [exc |-> "File does not exist: {path}", occurrences |-> 0, fs |-> fs]
    ELSE IF ~is_file(fs, path)
    THEN [exc |-> "Path is not a file: {path}", occurrences |-> 0, fs |-> fs]
    ELSE
    LET file_content == read_file(fs, path)
    IN  IF ~Contains(file_content, old_str)
        THEN [exc |-> "String not found in file: {path}", occurrences |-> 0, fs |-> fs]
        ELSE
        LET new == IF new_str = None THEN <<>> ELSE new_str
            new_content == PyReplace(file_content, old_str, new)
            occurrences == PyCount(file_content, old_str)
        IN  [exc |-> "", occurrences |-> occurrences,
             fs |-> write_file(fs, path, new_content)]

\* TextEditor.insert
insert(fs, path, insert_line, new_str) ==
    IF ~exists(fs, path) THEN [exc |-> "File does not exist: {path}", fs |-> fs]
    ELSE IF ~is_file(fs, path) THEN [exc |-> "Path is not a file: {path}", fs |-> fs]
    ELSE
    LET file_content == read_file(fs, path)
        lines_with_sep == PySplitlines(file_content, TRUE)
        num_lines == Len(lines_with_sep)
        terminator == IF EndsWithNewline(new_str) THEN <<>> ELSE <<LF>>
    IN  IF insert_line < 0
        THEN [exc |-> "Invalid insert_line: {insert_line}. Line number must be >= 0.",
              fs |-> fs]
        ELSE IF insert_line > num_lines
        THEN [exc |-> "Invalid insert_line: {insert_line}. Line number cannot be greater than the number of lines in the file ({num_lines}).",
              fs |-> fs]
        ELSE
        LET new_content ==
              IF insert_line = 0
              THEN new_str \o terminator \o Concat(lines_with_sep)
              ELSE IF insert_line = num_lines
              THEN Concat(lines_with_sep)
                     \o (IF ~EndsWithNewline(lines_with_sep[num_lines])
                         THEN <<LF>> ELSE <<>>)
                     \o new_str \o terminator
              ELSE Concat(SubSeq(lines_with_sep, 1, insert_line))
                     \o new_str \o terminator
                     \o Concat(SubSeq(lines_with_sep, insert_line + 1, num_lines))
        IN  [exc |-> "", fs |-> write_file(fs, path, new_content)]

\* The string a text_editor call returns: the f-string's template and the
\* values substituted into it
Returned(text, path, num, body) ==
    [text |-> text, path |-> path, num |-> num, body |-> body]

\* except Exception as e: return f"Error: {e}"
ErrorString(exc, path) == Returned("Error: " \o exc, path, 0, <<>>)

\* text_editor_tool, the view branch: v is what TextEditor.view returned or raised
view_branch(v, fs, path) ==
    IF v.exc # "" THEN [result |-> ErrorString(v.exc, path), fs |-> fs]
    ELSE [result |-> Returned("Here's the result of running 'cat -n' on {_path}:\n\n'''\n{view}\n'''",
                              path, 0, v.body),
          fs |-> fs]

\* text_editor_tool, the str_replace branch
str_replace_branch(r, fs, path) ==
    IF r.exc # "" THEN [result |-> ErrorString(r.exc, path), fs |-> fs]
    ELSE [result |-> Returned("Successfully replaced {occurrences} occurrences in {_path}.",
                              path, r.occurrences, <<>>),
          fs |-> r.fs]

\* text_editor_tool, the insert branch
insert_branch(r, fs, path, insert_line) ==
    IF r.exc # "" THEN [result |-> ErrorString(r.exc, path), fs |-> fs]
    ELSE [result |-> Returned("Successfully inserted text at line {insert_line} in {path}.",
                              path, insert_line, <<>>),
          fs |-> r.fs]

\* text_editor_tool, the create branch
create_branch(fs, path, file_text) ==
    IF is_dir(fs, path)
    THEN [result |-> Returned("Error: the path {_path} is a directory. Please provide a valid file path.",
                              path, 0, <<>>),
          fs |-> fs]
    ELSE [result |-> Returned("File successfully created at {_path}.", path, 0, <<>>),
          fs |-> write_file(fs, path, IF file_text # None THEN file_text ELSE <<>>)]

\* text_editor_tool: the returned string and the file system it leaves.
\* An absent view_range or insert_line is <<>>, a given insert_line is <<k>>.
text_editor_tool(fs, command, path, file_text, view_range, old_str, new_str, insert_line) ==
    IF validate_path(command, path) # ""
    THEN [result |-> ErrorString(validate_path(command, path), path), fs |-> fs]
    ELSE IF command = "view"
    THEN view_branch(view(fs, path, view_range), fs, path)
    ELSE IF command = "str_replace" /\ old_str # None /\ new_str # None
    THEN str_replace_branch(str_replace(fs, path, old_str, new_str), fs, path)
    ELSE IF command = "insert" /\ insert_line # <<>> /\ new_str # None
    THEN insert_branch(insert(fs, path, insert_line[1], new_str), fs, path, insert_line[1])
    ELSE IF command = "create"
    THEN create_branch(fs, path, file_text)
    ELSE [result |-> Returned("Error: invalid command: {command}", path, 0, <<>>), fs |-> fs]

-----------------------------------------------------------------------------
(* The state of the other components while one component is exercised *)

NoResult == Returned("", <<>>, 0, <<>>)

EditorIdle ==
    /\ os_name = "posix"
    /\ disk = [p \in DiskPaths |-> IF p = DIR_D THEN IsDir ELSE NoFile]

BashIdle ==
    /\ command_history = <<>>
    /\ last_result = [success |-> FALSE, output |-> "", error |-> "",
                      return_code |-> 0, duration_ms |-> 0]
    /\ spawn_calls = 0
    /\ n_calls = 0

DirsIdle == dirs = <<>>

\* The console as constructed: no file open, the welcome page, no turn
WelcomeText == <<"<welcome_text>">>

ConsoleIdle ==
    /\ _open_files = <<>>
    /\ _current_file = None
    /\ text_area = WelcomeText
    /\ tabs = {}
    /\ messages = <<>>
    /\ tasks = <<>>
    /\ event = [handler |-> "on_mount"]
    /\ _is_generating = FALSE
    /\ workers = <<>>

bashVars == <<command_history, last_result, spawn_calls, n_calls>>

-----------------------------------------------------------------------------
(* One call of the text editor tool *)

MaxArg == 2

ArgTexts == TextsUpTo(MaxArg)

\* view_range: absent, a list of one integer, or [start, end]
ViewRanges ==
    {<<>>, <<1>>} \cup {<<s, e>> : s \in 0..(MaxLen + 2), e \in (-1)..(MaxLen + 2)}

\* new_str of a str_replace of old_str: absent, a short text, or old_str itself
NewStrs(old_str) == {None, <<>>, <<"a">>, <<"b">>, <<LF>>, <<CR>>, old_str}

\* new_str of an insert
InsertTexts ==
    {None, <<>>, <<LF>>, <<"a">>, <<"b">>, <<"a", LF>>, <<"a", CR>>, <<"a", CR, LF>>,
     <<"a", LF, "b">>}

InsertLines == {<<>>} \cup {<<k>> : k \in (-1)..(MaxLen + 1)}

\* The state after a call that returned out; call is the call's arguments
EditReturn(out, call) ==
    /\ disk' = out.fs
    /\ result' = out.result
    /\ raised' = ""
    /\ calls' = Append(calls, call @@ [before |-> disk, result |-> out.result])
    /\ UNCHANGED <<os_name, bashVars, dirs, consoleVars>>

EditCall(command, path, file_text, view_range, old_str, new_str, insert_line) ==
    EditReturn(text_editor_tool(disk, command, path, file_text, view_range,
                                old_str, new_str, insert_line),
               [command |-> command, path |-> path, file_text |-> file_text,
                view_range |-> view_range, old_str |-> old_str,
                new_str |-> new_str, insert_line |-> insert_line])

ViewCall ==
    \E path \in Paths, view_range \in ViewRanges :
        EditCall("view", path, None, view_range, None, None, <<>>)

StrReplaceCall ==
    \E path \in Paths, old_str \in ArgTexts \cup {None} :
        \E new_str \in NewStrs(old_str) :
            EditCall("str_replace", path, None, <<>>, old_str, new_str, <<>>)

InsertCall ==
    \E path \in Paths, insert_line \in InsertLines, new_str \in InsertTexts :
        EditCall("insert", path, None, <<>>, None, new_str, insert_line)

CreateCall ==
    \E path \in Paths, file_text \in Texts \cup {None} :
        EditCall("create", path, file_text, <<>>, None, None, <<>>)

UnknownCall ==
    \E path \in Paths : EditCall("delete", path, None, <<>>, None, None, <<>>)

\* A file system of the editor: FILE_A absent or with any bytes, DIR_D a directory
InitDisk ==
    \E bytes \in Texts \cup {NoFile} :
        disk = [p \in DiskPaths |-> IF p = DIR_D THEN IsDir ELSE bytes]

InitEdit ==
    /\ os_name \in {"posix", "nt"}
    /\ InitDisk
    /\ result = NoResult
    /\ raised = ""
    /\ calls = <<>>
    /\ BashIdle
    /\ DirsIdle
    /\ ConsoleIdle

\* One call of the tool, with any arguments, on any file
FirstView == calls = <<>> /\ ViewCall
FirstStrReplace == calls = <<>> /\ StrReplaceCall
FirstInsert == calls = <<>> /\ InsertCall
FirstCreate == calls = <<>> /\ CreateCall
FirstUnknown == calls = <<>> /\ UnknownCall

NextEditCall == FirstView \/ FirstStrReplace \/ FirstInsert \/ FirstCreate \/ FirstUnknown

SpecEditCall == InitEdit /\ [][NextEditCall]_vars

-----------------------------------------------------------------------------
(* What the claims about the editor speak of *)

LastCall == calls[Len(calls)]

\* The lines of a text: the pieces between its line terminators (LF, CR, CRLF)
LinesOf(text) == PySplitlines(text, FALSE)

\* The non-overlapping occurrences of sub in s: the most positions of sub in s
\* no two of which overlap (Len(s) + 1 for the empty string)
OccurrencePositions(s, sub) ==
    {i \in 1..(Len(s) - Len(sub) + 1) : SubSeq(s, i, i + Len(sub) - 1) = sub}

NonOverlapping(P, n) == \A i, j \in P : i < j => j - i >= n

Occurrences(s, sub) ==
    LET sizes == {Cardinality(P) : P \in {Q \in SUBSET OccurrencePositions(s, sub) :
                                             NonOverlapping(Q, Len(sub))}}
    IN  CHOOSE n \in sizes : \A m \in sizes : m <= n

\* The bytes use the line endings of the host only: LF on POSIX, CRLF on Windows
HostStyle(bytes) ==
    IF os_name = "nt"
    THEN /\ \A i \in 1..Len(bytes) : bytes[i] = LF => (i > 1 /\ bytes[i - 1] = CR)
         /\ \A i \in 1..Len(bytes) : bytes[i] = CR => (i < Len(bytes) /\ bytes[i + 1] = LF)
    ELSE \A i \in 1..Len(bytes) : bytes[i] # CR

ViewText == "Here's the result of running 'cat -n' on {_path}:\n\n'''\n{view}\n'''"
ReplacedText == "Successfully replaced {occurrences} occurrences in {_path}."
InsertedText == "Successfully inserted text at line {insert_line} in {path}."
CreatedText == "File successfully created at {_path}."

\* The last call was view(FILE_A, [a, b]) of an existing file with 1 <= a <= b <= lines
ViewedRange(c) ==
    /\ c.command = "view" /\ c.path = FILE_A
    /\ is_file(c.before, FILE_A)
    /\ Len(c.view_range) = 2
    /\ 1 <= c.view_range[1] /\ c.view_range[1] <= c.view_range[2]
    /\ c.view_range[2] <= Len(LinesOf(c.before[FILE_A]))

RangeShown(c, body) ==
    /\ Len(body) = c.view_range[2] - c.view_range[1] + 1
    /\ \A i \in 1..Len(body) :
          body[i] = [num |-> c.view_range[1] + i - 1,
                     line |-> LinesOf(c.before[FILE_A])[c.view_range[1] + i - 1]]

\* C5: view(F, [a, b]) with 1 <= a <= b <= lines(F) outputs exactly b-a+1
\* numbered lines, the i-th being line a+i-1 of F with the number a+i-1.
C5_ViewShowsRange ==
    (calls # <<>> /\ ViewedRange(LastCall))
        => (result.text = ViewText /\ RangeShown(LastCall, result.body))

\* The last call was str_replace(FILE_A, S, S) on an existing file
ReplacedSame(c) ==
    /\ c.command = "str_replace" /\ c.path = FILE_A
    /\ is_file(c.before, FILE_A)
    /\ c.old_str # None /\ c.new_str = c.old_str

SameTextHostStyle(before, after, old_str) ==
    /\ result.text = ReplacedText
    /\ result.num = Occurrences(NormalizeNewlines(before), old_str)
    /\ NormalizeNewlines(after) = NormalizeNewlines(before)
    /\ HostStyle(after)
    /\ HostStyle(before) => after = before

-----------------------------------------------------------------------------
(* read_file followed by write_file of the content read, repeated *)

MaxPasses == 3

ReadWritePass ==
    /\ Len(calls) < MaxPasses
    /\ is_file(disk, FILE_A)
    /\ disk' = write_file(disk, FILE_A, read_file(disk, FILE_A))
    /\ calls' = Append(calls, [command |-> "read_write", path |-> FILE_A, before |-> disk])
    /\ UNCHANGED <<os_name, result, raised, bashVars, dirs, consoleVars>>

SpecRoundTrip == InitEdit /\ [][ReadWritePass]_vars

\* C8: after one read_file followed by write_file of the content read, every
\* further such pass leaves the bytes on disk unchanged.
C8_RoundTripFixedPoint ==
    Len(calls) >= 2 => disk[FILE_A] = LastCall.before[FILE_A]

C8_Witness ==
    /\ Len(calls) >= 2
    /\ os_name = "nt"
    /\ calls[1].before[FILE_A] = <<CR, LF, CR>>
    /\ disk[FILE_A] = <<CR, LF, CR, LF>>

-----------------------------------------------------------------------------
(* insert into an existing file, then view *)

InsertFirst ==
    /\ calls = <<>>
    /\ is_file(disk, FILE_A)
    /\ \E insert_line \in InsertLines, new_str \in InsertTexts :
          EditCall("insert", FILE_A, None, <<>>, None, new_str, insert_line)

ViewAfterInsert ==
    /\ Len(calls) = 1 /\ calls[1].command = "insert"
    /\ \E view_range \in ViewRanges :
          EditCall("view", FILE_A, None, view_range, None, None, <<>>)

NextInsertView == InsertFirst \/ ViewAfterInsert

SpecInsertView == InitEdit /\ [][NextInsertView]_vars

\* A one-line text: no line break but an optional terminator at its end
OneLine(text) == text # None /\ Len(LinesOf(text)) <= 1

\* The line of a one-line text, without its terminator
LineOf(text) == IF LinesOf(text) = <<>> THEN <<>> ELSE LinesOf(text)[1]

\* insert(F, k, T) succeeded and a view of line m alone followed
InsertedThenViewed(k, m) ==
    /\ Len(calls) = 2
    /\ calls[1].command = "insert" /\ calls[1].result.text = InsertedText
    /\ OneLine(calls[1].new_str)
    /\ calls[1].insert_line = <<k>>
    /\ calls[2].command = "view"
    /\ calls[2].view_range \in {<<m, m>>}

ShowsAsLine(text, m) ==
    /\ result.text = ViewText
    /\ result.body = <<[num |-> m, line |-> LineOf(text)]>>

\* C7: after insert(F, 0, T), view(F, [1, 1]) shows T as line 1; after
\* insert(F, n, T), n being the number of lines of F before the insert, a view
\* of the last line of F shows T.
C7_InsertedLineIsViewed ==
    /\ InsertedThenViewed(0, 1) => ShowsAsLine(calls[1].new_str, 1)
    /\ InsertedThenViewed(Len(LinesOf(calls[1].before[FILE_A])),
                          Len(LinesOf(disk[FILE_A])))
          => ShowsAsLine(calls[1].new_str, Len(LinesOf(disk[FILE_A])))

-----------------------------------------------------------------------------
(* create, then str_replace, then view of the whole file *)

\* FILE_A is absent, or exists with a content that create overwrites
InitCreate ==
    /\ os_name \in {"posix", "nt"}
    /\ \E bytes \in {NoFile, <<"b", CR>>} :
          disk = [p \in DiskPaths |-> IF p = DIR_D THEN IsDir ELSE bytes]
    /\ result = NoResult
    /\ raised = ""
    /\ calls = <<>>
    /\ BashIdle
    /\ DirsIdle
    /\ ConsoleIdle

CreateFirst ==
    /\ calls = <<>>
    /\ \E file_text \in Texts :
          EditCall("create", FILE_A, file_text, <<>>, None, None, <<>>)

ReplaceAfterCreate ==
    /\ Len(calls) = 1
    /\ \E old_str \in ArgTexts :
          \E new_str \in NewStrs(old_str) \ {None} :
              EditCall("str_replace", FILE_A, None, <<>>, old_str, new_str, <<>>)

ViewAfterReplace ==
    /\ Len(calls) = 2
    /\ EditCall("view", FILE_A, None, <<>>, None, None, <<>>)

NextCreateReplaceView == CreateFirst \/ ReplaceAfterCreate \/ ViewAfterReplace

SpecCreateReplaceView == InitCreate /\ [][NextCreateReplaceView]_vars

\* The lines of a text, numbered from 1
Numbered(lines) == [i \in 1..Len(lines) |-> [num |-> i, line |-> lines[i]]]

CreatedReplacedViewed ==
    /\ Len(calls) = 3
    /\ calls[1].command = "create" /\ calls[2].command = "str_replace"
    /\ calls[3].command = "view"

ReplacedAndShown(text, old_str, new_str) ==
    /\ calls[2].result.text = ReplacedText
    /\ calls[2].result.num = Occurrences(text, old_str)
    /\ result.text = ViewText
    /\ result.body = Numbered(LinesOf(PyReplace(text, old_str, new_str)))

-----------------------------------------------------------------------------
(* The command tool, src/src/tools/bash.py *)

DEFAULT_ALLOWED_COMMANDS ==
    {<<"l", "s">>,
     <<"d", "i", "r">>,
     <<"p", "w", "d">>,
     <<"c", "d">>,
     <<"e", "c", "h", "o">>,
     <<"c", "a", "t">>,
     <<"h", "e", "a", "d">>,
     <<"t", "a", "i", "l">>,
     <<"f", "i", "n", "d">>,
     <<"g", "r", "e", "p">>,
     <<"w", "c">>,
     <<"m", "k", "d", "i", "r">>,
     <<"r", "m", "d", "i", "r">>,
     <<"t", "o", "u", "c", "h">>,
     <<"c", "p">>,
     <<"m", "v">>,
     <<"r", "m">>,
     <<"c", "h", "m", "o", "d">>,
     <<"c", "h", "o", "w", "n">>,
     <<"d", "a", "t", "e">>,
     <<"t", "i", "m", "e">>,
     <<"w", "h", "o", "a", "m", "i">>,
     <<"e", "n", "v">>,
     <<"p", "r", "i", "n", "t", "e", "n", "v">>}

\* In the order of the source: the first one found in the command is reported
DANGEROUS_COMMANDS ==
    <<<<"s", "u", "d", "o">>,
      <<"s", "u">>,
      <<"c", "h", "r", "o", "o", "t">>,
      <<"m", "o", "u", "n", "t">>,
      <<"u", "m", "o", "u", "n", "t">>,
      <<"d", "d">>,
      <<"f", "d", "i", "s", "k">>,
      <<"m", "k", "f", "s">>,
      <<"r", "m", " ", "-", "r", "f">>,
      <<"s", "h", "u", "t", "d", "o", "w", "n">>,
      <<"r", "e", "b", "o", "o", "t">>,
      <<"h", "a", "l", "t">>,
      <<"p", "o", "w", "e", "r", "o", "f", "f">>>>

\* len(_command_history) > 100
HISTORY_LIMIT == 100

Whitespace == {" ", "\t", LF, CR}

\* str.strip()
RECURSIVE LStrip(_)
LStrip(s) == IF s # <<>> /\ Head(s) \in Whitespace THEN LStrip(Tail(s)) ELSE s

RECURSIVE RStrip(_)
RStrip(s) ==
    IF s # <<>> /\ s[Len(s)] \in Whitespace THEN RStrip(SubSeq(s, 1, Len(s) - 1)) ELSE s

Strip(s) == RStrip(LStrip(s))

\* The first word of a text that starts with one: up to the first whitespace
RECURSIVE Word(_)
Word(s) ==
    IF s = <<>> \/ Head(s) \in Whitespace THEN <<>> ELSE <<Head(s)>> \o Word(Tail(s))

\* str.split(): the words between runs of whitespace
RECURSIVE SplitWords(_)
SplitWords(s) ==
    IF LStrip(s) = <<>> THEN <<>>
    ELSE <<Word(LStrip(s))>>
           \o SplitWords(Tail_(LStrip(s), Len(Word(LStrip(s))) + 1))

\* The first of the dangerous commands, from the i-th on, that occurs in the
\* command; <<>> when none does
RECURSIVE FirstDangerous(_, _)
FirstDangerous(command, i) ==
    IF i > Len(DANGEROUS_COMMANDS) THEN <<>>
    ELSE IF Contains(command, DANGEROUS_COMMANDS[i]) THEN DANGEROUS_COMMANDS[i]
    ELSE FirstDangerous(command, i + 1)

\* _check_security without the scan for dangerous commands
check_security_allowlist_only(command) ==
    IF Strip(command) = <<>>
    THEN [is_safe |-> FALSE, error_msg |-> "empty command", what |-> <<>>]
    ELSE IF SplitWords(Strip(command))[1] \notin DEFAULT_ALLOWED_COMMANDS
    THEN [is_safe |-> FALSE, error_msg |-> "command '{cmd_name}' is not in the allowed list",
          what |-> SplitWords(Strip(command))[1]]
    ELSE [is_safe |-> TRUE, error_msg |-> "", what |-> <<>>]

\* _check_security: (is_safe, error_msg); what is the value substituted into
\* the message.  The messages are given in English.
_check_security(command) ==
    IF Strip(command) = <<>>
    THEN [is_safe |-> FALSE, error_msg |-> "empty command", what |-> <<>>]
    ELSE IF FirstDangerous(command, 1) # <<>>
    THEN [is_safe |-> FALSE, error_msg |-> "command contains a dangerous operation: {dangerous_cmd}",
          what |-> FirstDangerous(command, 1)]
    ELSE IF SplitWords(Strip(command)) = <<>>
    THEN [is_safe |-> FALSE, error_msg |-> "invalid command format", what |-> <<>>]
    ELSE IF SplitWords(Strip(command))[1] \notin DEFAULT_ALLOWED_COMMANDS
    THEN [is_safe |-> FALSE, error_msg |-> "command '{cmd_name}' is not in the allowed list",
          what |-> SplitWords(Strip(command))[1]]
    ELSE [is_safe |-> TRUE, error_msg |-> "", what |-> <<>>]

\* The result dict of a command call
ResultDict(success, output, error, return_code, command, duration_ms) ==
    [success |-> success, output |-> output, error |-> error,
     return_code |-> return_code, command |-> command, duration_ms |-> duration_ms]

\* What subprocess.run can do: the process exits with a return code, stdout and
\* stderr, or run raises TimeoutExpired, PermissionError or another exception
Outcomes ==
    [kind : {"exit"}, returncode : {0, 1}, stdout : {"", "out"}, stderr : {"", "err"},
     duration_ms : {0, 30}]
    \cup [kind : {"TimeoutExpired", "PermissionError", "Exception"}, returncode : {0},
          stdout : {""}, stderr : {""}, duration_ms : {0, 30}]

\* cwd: None, the empty string, or a path
Cwds == {None, <<>>, DIR_D, FILE_A, REL_A}

\* subprocess.run with cwd = "" raises: there is no such directory to change to
PossibleOutcomes(cwd) ==
    IF cwd = <<>> THEN {o \in Outcomes : o.kind = "Exception"} ELSE Outcomes

\* _execute_command: the result dict and the number of subprocess.run calls;
\* outcome is what subprocess.run does when it is reached
_execute_command(fs, command, cwd, outcome) ==
    IF cwd # None /\ cwd # <<>> /\ ~is_absolute(cwd)
    THEN [result |-> ResultDict(FALSE, "", "working directory '{cwd}' is not an absolute path",
                                -1, command, 0),
          spawned |-> 0]
    ELSE IF cwd # None /\ cwd # <<>> /\ (~exists(fs, cwd) \/ ~is_dir(fs, cwd))
    THEN [result |-> ResultDict(FALSE, "", "working directory '{cwd}' does not exist or is not a directory",
                                -1, command, 0),
          spawned |-> 0]
    ELSE IF outcome.kind = "exit"
    THEN [result |-> ResultDict(outcome.returncode = 0, outcome.stdout, outcome.stderr,
                                outcome.returncode, command, outcome.duration_ms),
          spawned |-> 1]
    ELSE IF outcome.kind = "TimeoutExpired"
    THEN [result |-> ResultDict(FALSE, "", "command timed out ({timeout} seconds)",
                                -2, command, outcome.duration_ms),
          spawned |-> 1]
    ELSE IF outcome.kind = "PermissionError"
    THEN [result |-> ResultDict(FALSE, "", "permission denied, cannot run the command",
                                -3, command, outcome.duration_ms),
          spawned |-> 1]
    ELSE [result |-> ResultDict(FALSE, "", "error while running the command: {str(e)}",
                                -1, command, outcome.duration_ms),
          spawned |-> 1]

SuccessEnvelope == "Command executed successfully (exit code: {return_code}, duration: {duration_ms}ms):\n'''\n{output}\n'''"
FailedEnvelope == "Command failed (exit code: {return_code}, duration: {duration_ms}ms):\n'''\n{error_msg}\n'''"
SecurityError == "Error: {error_msg}"

\* The string bash_tool returns: the template and the values substituted
BashReturned(text, return_code, duration_ms, body) ==
    [text |-> text, return_code |-> return_code, duration_ms |-> duration_ms,
     body |-> body]

\* bash_tool, formatting the result dict of an executed command
format_result(r) ==
    IF r.success
    THEN BashReturned(SuccessEnvelope, r.return_code, r.duration_ms, r.output)
    ELSE BashReturned(FailedEnvelope, r.return_code, r.duration_ms,
                      IF r.error # "" THEN r.error ELSE "Unknown error")

\* _command_history.append(result); if len(_command_history) > 100: pop(0).
\* An entry of the history is the ordinal of the call whose result dict it is.
append_and_trim(history, entry) ==
    IF Len(history) + 1 > HISTORY_LIMIT THEN Tail(Append(history, entry))
    ELSE Append(history, entry)

\* bash_tool, the branch of a command the security check rejects
bash_rejected(check, command) ==
    /\ last_result' = ResultDict(FALSE, "", check.error_msg, -4, command, 0)
    /\ command_history' = Append(command_history, n_calls + 1)
    /\ spawn_calls' = 0
    /\ result' = BashReturned(SecurityError, 0, 0, check.error_msg)

\* bash_tool, the branch of a command that passed the security check
bash_executed(run) ==
    /\ last_result' = run.result
    /\ command_history' = append_and_trim(command_history, n_calls + 1)
    /\ spawn_calls' = run.spawned
    /\ result' = format_result(run.result)

\* bash_tool(command, cwd): _enable_security_checks is True and never changed
bash_tool(command, cwd, outcome) ==
    /\ IF ~_check_security(command).is_safe
       THEN bash_rejected(_check_security(command), command)
       ELSE bash_executed(_execute_command(disk, command, cwd, outcome))
    /\ n_calls' = n_calls + 1
    /\ raised' = ""
    /\ UNCHANGED <<os_name, disk, calls, dirs, consoleVars>>

InitBash ==
    /\ os_name \in {"posix", "nt"}
    /\ \E bytes \in {NoFile, <<"a">>} :
          disk = [p \in DiskPaths |-> IF p = DIR_D THEN IsDir ELSE bytes]
    /\ result = BashReturned("", 0, 0, "")
    /\ raised = ""
    /\ calls = <<>>
    /\ command_history = <<>>
    /\ last_result = ResultDict(FALSE, "", "", 0, <<>>, 0)
    /\ spawn_calls = 0
    /\ n_calls = 0
    /\ DirsIdle
    /\ ConsoleIdle

\* The commands of the model: allowed, blank, with a dangerous substring (also
\* inside a word, as dd in add), or with a first word outside the allowlist
CMD_LS == <<"l", "s">>
CMD_SUDO == <<"s", "u", "d", "o", " ", "l", "s">>
CMD_RM_RF == <<"r", "m", " ", "-", "r", "f", " ", "/">>

Commands ==
    {<<"l", "s">>,
     <<>>,
     <<" ">>,
     <<"r", "m", " ", "-", "r", "f", " ", "/">>,
     <<"s", "u", "d", "o", " ", "l", "s">>,
     <<"e", "c", "h", "o", " ", "a", "d", "d">>,
     <<"p", "y">>,
     <<" ", "l", "s">>,
     <<"r", "m", " ", "x">>}

\* One call of the command tool, with any command, cwd and outcome
BashCall ==
    /\ n_calls = 0
    /\ \E command \in Commands, cwd \in Cwds :
          \E outcome \in PossibleOutcomes(cwd) : bash_tool(command, cwd, outcome)

SpecBash == InitBash /\ [][BashCall]_vars

\* A sequence of calls, each of a command that is executed or one that is rejected
MaxCalls == 150

ExecutedCall ==
    /\ n_calls < MaxCalls
    /\ \E outcome \in {o \in Outcomes : o.kind = "exit" /\ o.stdout = "" /\ o.stderr = ""
                                          /\ o.duration_ms = 0} :
          bash_tool(CMD_LS, None, outcome)

RejectedCall ==
    /\ n_calls < MaxCalls
    /\ \E outcome \in {o \in Outcomes : o.kind = "Exception"} :
          bash_tool(CMD_SUDO, None, outcome)

NextBashHistory == ExecutedCall \/ RejectedCall

SpecBashHistory == InitBash /\ [][NextBashHistory]_vars

-----------------------------------------------------------------------------
(* Claims about the command tool *)

\* C1: after any sequence of command-tool calls, executed and rejected ones
\* mixed, the history holds at most 100 entries, and after 150 calls it holds
\* the results of calls 51..150 in call order.
C1_HistoryBounded ==
    /\ Len(command_history) <= 100
    /\ n_calls = 150 => command_history = [i \in 1..100 |-> 50 + i]

\* The command is not blank, contains no dangerous substring, and its first
\* whitespace-delimited token is an allowed command
NotBlank(command) == \E i \in 1..Len(command) : command[i] \notin Whitespace

NoDangerousSubstring(command) ==
    \A i \in 1..Len(DANGEROUS_COMMANDS) :
        \A j \in 1..(Len(command) - Len(DANGEROUS_COMMANDS[i]) + 1) :
            SubSeq(command, j, j + Len(DANGEROUS_COMMANDS[i]) - 1) # DANGEROUS_COMMANDS[i]

\* The token that starts at the first character that is not whitespace and
\* ends before the next whitespace or at the end of the command
FirstToken(command) ==
    LET start == CHOOSE i \in 1..Len(command) :
                    /\ command[i] \notin Whitespace
                    /\ \A j \in 1..(i - 1) : command[j] \in Whitespace
        stop == CHOOSE k \in start..Len(command) :
                    /\ \A j \in start..k : command[j] \notin Whitespace
                    /\ k = Len(command) \/ command[k + 1] \in Whitespace
    IN  SubSeq(command, start, stop)

SafeCommand(command) ==
    /\ NotBlank(command)
    /\ NoDangerousSubstring(command)
    /\ FirstToken(command) \in DEFAULT_ALLOWED_COMMANDS

\* C2: a call spawns a subprocess only for a command that is not blank, has no
\* denylisted substring and an allowlisted first token; for every other
\* command the call returns the security rejection and spawns nothing.
C2_SpawnOnlyIfSafe ==
    n_calls = 1 =>
        /\ spawn_calls > 0 => SafeCommand(last_result.command)
        /\ ~SafeCommand(last_result.command) =>
              /\ spawn_calls = 0
              /\ result.text = SecurityError
              /\ last_result.return_code = -4

\* C2, its case: the destructive delete is rejected and nothing is spawned
C2_Witness ==
    /\ n_calls = 1
    /\ last_result.command = CMD_RM_RF
    /\ result.text = SecurityError
    /\ result.body = "command contains a dangerous operation: {dangerous_cmd}"
    /\ spawn_calls = 0

\* C3: every command-tool call, whatever its outcome, returns one of the two
\* envelopes: Command executed successfully (exit code, duration) with the
\* fenced stdout, or Command failed (exit code, duration) with the fenced
\* stderr or reason.
C3_FixedEnvelopes ==
    n_calls = 1 =>
        \/ /\ result.text = SuccessEnvelope
           /\ result.return_code = 0
           /\ result.body = last_result.output
        \/ /\ result.text = FailedEnvelope
           /\ result.return_code = last_result.return_code
           /\ result.body \in {last_result.error, "Unknown error"}

-----------------------------------------------------------------------------
(* The directory tools: src/src/tools/ls.py, tree.py and grep.py.  A path is
   the sequence of its components, the first one "/" when it is absolute; a
   name is a sequence of characters.  The box-drawing connectors of the tree
   are written with the ASCII characters | - and '. *)

\* The printable ASCII characters in code order: codes 32 to 95, and codes 97
\* to 126 (code 96, the grave accent, is left out)
AsciiFrom32 ==
    <<" ", "!", "\"", "#", "$", "%", "&", "'", "(", ")", "*", "+",
      ",", "-", ".", "/", "0", "1", "2", "3", "4", "5", "6", "7",
      "8", "9", ":", ";", "<", "=", ">", "?", "@", "A", "B", "C",
      "D", "E", "F", "G", "H", "I", "J", "K", "L", "M", "N", "O",
      "P", "Q", "R", "S", "T", "U", "V", "W", "X", "Y", "Z", "[",
      "\\", "]", "^", "_">>

AsciiFrom97 ==
    <<"a", "b", "c", "d", "e", "f", "g", "h", "i", "j", "k", "l",
      "m", "n", "o", "p", "q", "r", "s", "t", "u", "v", "w", "x",
      "y", "z", "{", "|", "}", "~">>

\* The one character with code 96
BACKQUOTE == "<backquote>"

\* ord(c)
Ord(c) ==
    IF c = BACKQUOTE THEN 96 ELSE IF c = "\t" THEN 9 ELSE IF c = LF THEN 10 ELSE IF c = CR THEN 13
    ELSE IF \E i \in 1..Len(AsciiFrom32) : AsciiFrom32[i] = c
    THEN 31 + (CHOOSE i \in 1..Len(AsciiFrom32) : AsciiFrom32[i] = c)
    ELSE 96 + (CHOOSE i \in 1..Len(AsciiFrom97) : AsciiFrom97[i] = c)

\* str.lower(): the letters A-Z (codes 65 to 90) become a-z (codes 97 to 122)
lower(s) ==
    [i \in 1..Len(s) |->
        IF Ord(s[i]) >= 65 /\ Ord(s[i]) <= 90 THEN AsciiFrom97[Ord(s[i]) - 64] ELSE s[i]]

\* a < b for strings: by code, the shorter first when one is a prefix
RECURSIVE str_less(_, _)
str_less(a, b) ==
    IF b = <<>> THEN FALSE
    ELSE IF a = <<>> THEN TRUE
    ELSE IF Head(a) = Head(b) THEN str_less(Tail(a), Tail(b))
    ELSE Ord(Head(a)) < Ord(Head(b))

\* os.path.normcase: on nt lower case and back-slashes, elsewhere unchanged
normcase(s) ==
    IF os_name = "nt"
    THEN [i \in 1..Len(s) |-> IF s[i] = "/" THEN "\\" ELSE lower(s)[i]]
    ELSE s

\* fnmatch.fnmatchcase for the patterns made of literals, * and ?
RECURSIVE fnmatchcase(_, _)
fnmatchcase(name, pat) ==
    IF pat = <<>> THEN name = <<>>
    ELSE IF Head(pat) = "*"
    THEN fnmatchcase(name, Tail(pat)) \/ (name # <<>> /\ fnmatchcase(Tail(name), pat))
    ELSE IF name = <<>> THEN FALSE
    ELSE (Head(pat) = "?" \/ Head(pat) = Head(name)) /\ fnmatchcase(Tail(name), Tail(pat))

\* fnmatch.fnmatch(name, pat)
fnmatch(name, pat) == fnmatchcase(normcase(name), normcase(pat))

\* any(fnmatch.fnmatch(name, p) for p in patterns)
any_fnmatch(name, patterns) == \E i \in 1..Len(patterns) : fnmatch(name, patterns[i])

\* The default ignore set: version-control metadata and build artifacts
DEFAULT_IGNORE_PATTERNS == <<<<".", "g", "i", "t">>, <<"*", ".", "p", "y", "c">>>>

\* The paths of the model
SLASH == <<"/">>
P_R == <<SLASH, <<"r">>>>
P_GIT == <<SLASH, <<"r">>, <<".", "g", "i", "t">>>>
P_CONFIG == <<SLASH, <<"r">>, <<".", "g", "i", "t">>, <<"c", "o", "n", "f", "i", "g">>>>
P_SRC == <<SLASH, <<"r">>, <<"s", "r", "c">>>>
P_MAIN_PY == <<SLASH, <<"r">>, <<"s", "r", "c">>, <<"m", "a", "i", "n", ".", "p", "y">>>>
P_M_PYC == <<SLASH, <<"r">>, <<"s", "r", "c">>, <<"M", ".", "P", "Y", "C">>>>
P_NOTES == <<SLASH, <<"r">>, <<"n", "o", "t", "e", "s", ".", "m", "d">>>>
P_MISSING == <<SLASH, <<"x">>>>
P_REL == <<<<"r">>>>

NodePaths == {P_R, P_GIT, P_CONFIG, P_SRC, P_MAIN_PY, P_M_PYC, P_NOTES}

\* What a path names: nothing, a file with its text, a directory, or something
\* that is neither (a FIFO, a socket); readable is the read permission of the
\* caller
Absent == [kind |-> "absent", readable |-> FALSE, text |-> <<>>]
Special == [kind |-> "special", readable |-> TRUE, text |-> <<>>]
File(text, readable) == [kind |-> "file", readable |-> readable, text |-> text]
Dir(readable) == [kind |-> "dir", readable |-> readable, text |-> <<>>]

\* Path.is_absolute, Path.name, Path.exists, Path.is_dir, Path.is_file
path_is_absolute(p) == p # <<>> /\ p[1] = SLASH
path_name(p) == IF p = <<>> \/ p = <<SLASH>> THEN <<>> ELSE p[Len(p)]
path_exists(fs, p) == p \in DOMAIN fs /\ fs[p].kind # "absent"
path_is_dir(fs, p) == p \in DOMAIN fs /\ fs[p].kind = "dir"
path_is_file(fs, p) == p \in DOMAIN fs /\ fs[p].kind = "file"

\* Path.iterdir of a directory that can be read: its immediate children
iterdir(fs, p) ==
    {q \in DOMAIN fs : Len(q) = Len(p) + 1 /\ SubSeq(q, 1, Len(p)) = p /\ path_exists(fs, q)}

\* Path.rglob("*"): everything below p that is reached through directories
\* that can be read; a directory that cannot be read is skipped silently
rglob(fs, p) ==
    {q \in DOMAIN fs :
        /\ Len(q) > Len(p) /\ SubSeq(q, 1, Len(p)) = p /\ path_exists(fs, q)
        /\ \A k \in Len(p)..(Len(q) - 1) :
              path_is_dir(fs, SubSeq(q, 1, k)) /\ fs[SubSeq(q, 1, k)].readable}

\* a < b for paths, component by component
RECURSIVE path_less(_, _)
path_less(a, b) ==
    IF b = <<>> THEN FALSE
    ELSE IF a = <<>> THEN TRUE
    ELSE IF Head(a) = Head(b) THEN path_less(Tail(a), Tail(b))
    ELSE str_less(Head(a), Head(b))

\* The order in which the system enumerates a directory is not specified and
\* no claim depends on it: the model enumerates in the order of the paths
RECURSIVE in_enumeration_order(_)
in_enumeration_order(S) ==
    IF S = {} THEN <<>>
    ELSE <<CHOOSE p \in S : \A q \in S \ {p} : path_less(p, q)>>
           \o in_enumeration_order(S \ {CHOOSE p \in S : \A q \in S \ {p} : path_less(p, q)})

\* key=lambda x: (x.is_file(), x.name.lower()): a before b
sort_key_less(fs, a, b) ==
    \/ ~path_is_file(fs, a) /\ path_is_file(fs, b)
    \/ /\ path_is_file(fs, a) = path_is_file(fs, b)
       /\ str_less(lower(path_name(a)), lower(path_name(b)))

\* list.sort with that key.  The siblings of the model have names that differ
\* in lower case, so that the order does not depend on the enumeration.
sorted_items(fs, items) == SortSeq(items, LAMBDA a, b : sort_key_less(fs, a, b))

\* A pattern list that is absent (None)
NoneList == <<None>>

\* (lst or [])
or_empty(lst) == IF lst = NoneList THEN <<>> ELSE lst

\* (ignore or []) + DEFAULT_IGNORE_PATTERNS, with the default set dropped when
\* the caller gives a list
ignore_patterns_caller_or_default(ignore) ==
    IF or_empty(ignore) # <<>> THEN ignore ELSE DEFAULT_IGNORE_PATTERNS

\* ignore_patterns = (ignore or []) + DEFAULT_IGNORE_PATTERNS
ignore_patterns(ignore) == or_empty(ignore) \o DEFAULT_IGNORE_PATTERNS

\* The strings the directory tools return: the template and the values
\* substituted, body being the lines inside the fence
NotAbsolute == "Error: {path} is not an absolute path. Provide an absolute path."
DoesNotExist == "Error: {path} does not exist. Provide a valid path."
NotADirectory == "Error: {path} is not a directory. Provide a directory path."
PermissionDenied == "Error: Permission denied to access {path}."
NoItems == "No items found in {path}."
ContentsOf == "Contents of {path}:\n'''\n{lines}\n'''"
DirectoryTree == "Directory tree for {root}:\n'''\n{lines}\n'''"
GrepNotAbsolute == "Error: {path_str} is not an absolute path. Provide absolute paths."
GrepDoesNotExist == "Error: {path_str} does not exist. Provide valid paths."
NoMatches == "No matches found for '{pattern}'."
MatchesFor == "Matches for '{pattern}' ({len(results)} total):\n'''\n{lines}\n'''"

\* What a call of a directory tool does: it returns a string, or an exception
\* leaves the tool; enumerated are the directories the call has enumerated
\* (iterdir, rglob) and opened the files it has opened
Returns(text, path, num, body) ==
    [raised |-> "", result |-> Returned(text, path, num, body),
     enumerated |-> {}, opened |-> {}]
Raises(exception) ==
    [raised |-> exception, result |-> NoResult, enumerated |-> {}, opened |-> {}]
After(out, enumerated, opened) ==
    [out EXCEPT !.enumerated = enumerated, !.opened = opened]

\* ls_tool: the items that pass the match patterns, in the order of items
ls_matched(items, match) ==
    IF or_empty(match) # <<>>
    THEN SelectSeq(items, LAMBDA item : any_fnmatch(path_name(item), match))
    ELSE items

\* ls_tool: the items that no ignore pattern excludes
ls_not_ignored(items, ignore) ==
    SelectSeq(items, LAMBDA item : ~any_fnmatch(path_name(item), ignore_patterns(ignore)))

\* ls_tool: a line of the result, item.name with a slash after a directory
ls_line(fs, item) == [name |-> path_name(item), is_dir |-> path_is_dir(fs, item)]

\* ls_tool, from the formatting of the items that are left
ls_format(fs, path, items) ==
    IF items = <<>> THEN Returns(NoItems, path, 0, <<>>)
    ELSE Returns(ContentsOf, path, Len(items), [i \in 1..Len(items) |-> ls_line(fs, items[i])])

\* ls_tool(path, match, ignore)
ls_tool(fs, path, match, ignore) ==
    IF ~path_is_absolute(path) THEN Returns(NotAbsolute, path, 0, <<>>)
    ELSE IF ~path_exists(fs, path) THEN Returns(DoesNotExist, path, 0, <<>>)
    ELSE IF ~path_is_dir(fs, path) THEN Returns(NotADirectory, path, 0, <<>>)
    ELSE IF ~fs[path].readable
    THEN After(Returns(PermissionDenied, path, 0, <<>>), {path}, {})
    ELSE After(ls_format(fs, path,
                   ls_not_ignored(
                       ls_matched(sorted_items(fs, in_enumeration_order(iterdir(fs, path))),
                                  match),
                       ignore)),
               {path}, {})

\* The lines of a tree: the root, an entry below its prefix and connector, and
\* the marker of a directory that cannot be read
RootLine(name) ==
    [kind |-> "root", prefix |-> <<>>, connector |-> "", name |-> name, is_dir |-> TRUE]
EntryLine(prefix, is_last, name, dir) ==
    [kind |-> "entry", prefix |-> prefix, connector |-> IF is_last THEN "'-- " ELSE "|-- ",
     name |-> name, is_dir |-> dir]
DeniedLine(prefix) ==
    [kind |-> "denied", prefix |-> prefix, connector |-> "|-- ",
     name |-> <<>>, is_dir |-> FALSE]

\* tree_tool._recurse: the items of a directory that are not ignored and pass
\* the match patterns, sorted.  ctx holds fs, max_depth, match and ignore_patterns.
tree_filtered(ctx, current_path) ==
    sorted_items(ctx.fs,
        in_enumeration_order(
            {item \in iterdir(ctx.fs, current_path) :
                /\ ~any_fnmatch(path_name(item), ctx.ignore_patterns)
                /\ or_empty(ctx.match) # <<>> => any_fnmatch(path_name(item), ctx.match)}))

\* tree_tool._recurse(current_path, prefix, depth): the lines it appends;
\* tree_items is its loop over the filtered items from the i-th on
RECURSIVE _recurse(_, _, _, _)
RECURSIVE tree_items(_, _, _, _, _)
_recurse(ctx, current_path, prefix, depth) ==
    IF ctx.max_depth # <<>> /\ depth > ctx.max_depth[1] THEN <<>>
    ELSE IF ~ctx.fs[current_path].readable THEN <<DeniedLine(prefix)>>
    ELSE tree_items(ctx, tree_filtered(ctx, current_path), 1, prefix, depth)

tree_items(ctx, filtered, i, prefix, depth) ==
    IF i > Len(filtered) THEN <<>>
    ELSE <<EntryLine(prefix, i = Len(filtered), path_name(filtered[i]),
                     path_is_dir(ctx.fs, filtered[i]))>>
         \o (IF path_is_dir(ctx.fs, filtered[i])
             THEN _recurse(ctx, filtered[i],
                           Append(prefix, IF i = Len(filtered) THEN "    " ELSE "|   "),
                           depth + 1)
             ELSE <<>>)
         \o tree_items(ctx, filtered, i + 1, prefix, depth)

\* tree_tool._recurse(current_path, prefix, depth): the directories on which
\* it calls iterdir
RECURSIVE tree_enumerated(_, _, _)
tree_enumerated(ctx, current_path, depth) ==
    IF ctx.max_depth # <<>> /\ depth > ctx.max_depth[1] THEN {}
    ELSE IF ~ctx.fs[current_path].readable THEN {current_path}
    ELSE {current_path}
         \cup UNION {tree_enumerated(ctx, item, depth + 1) :
                        item \in {x \in iterdir(ctx.fs, current_path) :
                                    /\ path_is_dir(ctx.fs, x)
                                    /\ ~any_fnmatch(path_name(x), ctx.ignore_patterns)
                                    /\ or_empty(ctx.match) # <<>> =>
                                          any_fnmatch(path_name(x), ctx.match)}}

\* tree_tool, from the root line on, in the context of the call
tree_from_root(ctx, root) ==
    After(Returns(DirectoryTree, root, 0,
                  <<RootLine(path_name(root))>> \o _recurse(ctx, root, <<>>, 1)),
          tree_enumerated(ctx, root, 1), {})

\* tree_tool(root, max_depth, match, ignore); max_depth is <<>> when absent
tree_tool(fs, root, max_depth, match, ignore) ==
    IF ~path_is_absolute(root) THEN Returns(NotAbsolute, root, 0, <<>>)
    ELSE IF ~path_exists(fs, root) THEN Returns(DoesNotExist, root, 0, <<>>)
    ELSE IF ~path_is_dir(fs, root) THEN Returns(NotADirectory, root, 0, <<>>)
    ELSE tree_from_root([fs |-> fs, max_depth |-> max_depth, match |-> match,
                         ignore_patterns |-> ignore_patterns(ignore)],
                        root)

\* The files of a set of paths, in enumeration order
files_of(fs, S) == in_enumeration_order({f \in S : path_is_file(fs, f)})

\* grep_tool, the loop over paths from the i-th on: the files to search, or
\* the error that ends the call
RECURSIVE collect_files(_, _, _, _, _, _)
collect_files(fs, paths, i, recursive, files, enumerated) ==
    IF i > Len(paths)
    THEN [end |-> "", path |-> <<>>, files |-> files, enumerated |-> enumerated]
    ELSE IF ~path_is_absolute(paths[i])
    THEN [end |-> GrepNotAbsolute, path |-> paths[i], files |-> files,
          enumerated |-> enumerated]
    ELSE IF ~path_exists(fs, paths[i])
    THEN [end |-> GrepDoesNotExist, path |-> paths[i], files |-> files,
          enumerated |-> enumerated]
    ELSE IF path_is_file(fs, paths[i])
    THEN collect_files(fs, paths, i + 1, recursive, Append(files, paths[i]), enumerated)
    ELSE IF ~path_is_dir(fs, paths[i])
    THEN collect_files(fs, paths, i + 1, recursive, files, enumerated)
    ELSE IF recursive
    THEN collect_files(fs, paths, i + 1, recursive,
                       files \o files_of(fs, rglob(fs, paths[i])),
                       enumerated \cup {paths[i]})
    ELSE IF ~fs[paths[i]].readable
    THEN [end |-> "PermissionError", path |-> paths[i], files |-> files,
          enumerated |-> enumerated \cup {paths[i]}]
    ELSE collect_files(fs, paths, i + 1, recursive,
                       files \o files_of(fs, iterdir(fs, paths[i])),
                       enumerated \cup {paths[i]})

\* f.readlines() of a file opened in text mode: CRLF and CR read as LF, and
\* a line ends after each LF
readlines(text) ==
    IF text = <<>> THEN <<>>
    ELSE IF EndsWith(NormalizeNewlines(text), <<LF>>)
    THEN PySplit(SubSeq(NormalizeNewlines(text), 1, Len(NormalizeNewlines(text)) - 1), <<LF>>)
    ELSE PySplit(NormalizeNewlines(text), <<LF>>)

\* grep_tool: the results of the lines of a file from the i-th on
RECURSIVE grep_lines(_, _, _, _, _, _)
grep_lines(file, lines, i, target, case_sensitive, invert) ==
    IF i > Len(lines) THEN <<>>
    ELSE (IF Contains(IF case_sensitive THEN Strip(lines[i]) ELSE lower(Strip(lines[i])),
                      target) # invert
          THEN <<[file |-> file, line_num |-> i, content |-> Strip(lines[i])]>>
          ELSE <<>>)
         \o grep_lines(file, lines, i + 1, target, case_sensitive, invert)

\* grep_tool: the results of the files from the i-th on; a file that is
\* ignored or cannot be read is skipped
RECURSIVE grep_files(_, _, _, _, _, _)
grep_files(fs, files, i, target, case_sensitive, invert) ==
    IF i > Len(files) THEN <<>>
    ELSE (IF any_fnmatch(path_name(files[i]), DEFAULT_IGNORE_PATTERNS)
             \/ ~fs[files[i]].readable
          THEN <<>>
          ELSE grep_lines(files[i], readlines(fs[files[i]].text), 1, target,
                          case_sensitive, invert))
         \o grep_files(fs, files, i + 1, target, case_sensitive, invert)

\* grep_tool, from the formatting of the results
grep_format(pattern, results) ==
    IF results = <<>> THEN Returns(NoMatches, pattern, 0, <<>>)
    ELSE Returns(MatchesFor, pattern, Len(results), results)

\* grep_tool, after the loop over paths
grep_search(fs, pattern, collected, case_sensitive, invert) ==
    IF collected.end = "PermissionError"
    THEN After(Raises("PermissionError"), collected.enumerated, {})
    ELSE IF collected.end # ""
    THEN After(Returns(collected.end, collected.path, 0, <<>>), collected.enumerated, {})
    ELSE After(grep_format(pattern,
                   grep_files(fs, collected.files, 1,
                              IF case_sensitive THEN pattern ELSE lower(pattern),
                              case_sensitive, invert)),
               collected.enumerated,
               {collected.files[k] : k \in {j \in 1..Len(collected.files) :
                   ~any_fnmatch(path_name(collected.files[j]), DEFAULT_IGNORE_PATTERNS)}})

\* grep_tool(pattern, paths, case_sensitive, recursive, invert)
grep_tool(fs, pattern, paths, case_sensitive, recursive, invert) ==
    grep_search(fs, pattern, collect_files(fs, paths, 1, recursive, <<>>, {}),
                case_sensitive, invert)

-----------------------------------------------------------------------------
(* The calls of the directory tools on a directory tree *)

\* The texts of the files
FileTexts == {<<"a", LF, "b">>, <<" ", "A", " ", CR, LF>>}

\* The directory trees of the model: /r with .git (a directory with or
\* without config, or a file), src (with main.py and M.PYC, readable or not)
\* and notes.md (a file, readable or not, or a FIFO)
TreeChoices ==
    [git : {"absent", "file", "dir"}, config : BOOLEAN,
     src : {"absent", "dir", "locked"}, main_py : BOOLEAN, m_pyc : BOOLEAN,
     notes : {"absent", "file", "unreadable", "special"}, text : FileTexts]

MakeTree(c) ==
    [p \in NodePaths |->
        IF p = P_R THEN Dir(TRUE)
        ELSE IF p = P_GIT
        THEN (IF c.git = "dir" THEN Dir(TRUE)
              ELSE IF c.git = "file" THEN File(c.text, TRUE) ELSE Absent)
        ELSE IF p = P_CONFIG
        THEN (IF c.git = "dir" /\ c.config THEN File(c.text, TRUE) ELSE Absent)
        ELSE IF p = P_SRC
        THEN (IF c.src = "absent" THEN Absent ELSE Dir(c.src = "dir"))
        ELSE IF p = P_MAIN_PY
        THEN (IF c.src # "absent" /\ c.main_py THEN File(c.text, TRUE) ELSE Absent)
        ELSE IF p = P_M_PYC
        THEN (IF c.src # "absent" /\ c.m_pyc THEN File(c.text, TRUE) ELSE Absent)
        ELSE IF c.notes = "absent" THEN Absent
        ELSE IF c.notes = "special" THEN Special
        ELSE File(c.text, c.notes = "file")]

DirectoryTrees == {MakeTree(c) : c \in TreeChoices}

InitDirs ==
    /\ os_name \in {"posix", "nt"}
    /\ disk = [p \in DiskPaths |-> IF p = DIR_D THEN IsDir ELSE NoFile]
    /\ result = NoResult
    /\ raised = ""
    /\ calls = <<>>
    /\ BashIdle
    /\ ConsoleIdle
    /\ dirs \in DirectoryTrees

\* The arguments of the calls
ArgPaths == {P_R, P_GIT, P_SRC, P_NOTES, P_MISSING, P_REL}
PatternLists == {NoneList, <<>>, <<<<"*", ".", "p", "y">>>>, <<<<".", "g", "?", "t">>, <<"s", "*">>>>}
MaxDepth == 2
MaxDepths == {<<>>} \cup {<<d>> : d \in 0..MaxDepth}
GrepPatterns == {<<"a">>, <<" ", "a">>, <<>>}
PathLists == {<<p>> : p \in ArgPaths} \cup {<<P_SRC, P_REL>>, <<P_NOTES, P_GIT>>}

\* A tool returns, or an exception leaves it; call is the record of the call
DirReturn(out, call) ==
    /\ result' = out.result
    /\ raised' = out.raised
    /\ calls' = Append(calls, call @@ [enumerated |-> out.enumerated,
                                        opened |-> out.opened])
    /\ UNCHANGED <<os_name, disk, bashVars, dirs, consoleVars>>

LsCall ==
    /\ calls = <<>>
    /\ \E path \in ArgPaths, match \in PatternLists, ignore \in PatternLists :
          DirReturn(ls_tool(dirs, path, match, ignore),
                    [tool |-> "ls", path |-> path, match |-> match, ignore |-> ignore])

TreeCall ==
    /\ calls = <<>>
    /\ \E root \in ArgPaths, max_depth \in MaxDepths,
          match \in PatternLists, ignore \in PatternLists :
          DirReturn(tree_tool(dirs, root, max_depth, match, ignore),
                    [tool |-> "tree", path |-> root, max_depth |-> max_depth,
                     match |-> match, ignore |-> ignore])

GrepCall ==
    /\ calls = <<>>
    /\ \E pattern \in GrepPatterns, paths \in PathLists,
          case_sensitive \in BOOLEAN, recursive \in BOOLEAN, invert \in BOOLEAN :
          DirReturn(grep_tool(dirs, pattern, paths, case_sensitive, recursive, invert),
                    [tool |-> "grep", pattern |-> pattern, paths |-> paths,
                     case_sensitive |-> case_sensitive, recursive |-> recursive,
                     invert |-> invert])

NextDirs == LsCall \/ TreeCall \/ GrepCall

SpecDirs == InitDirs /\ [][NextDirs]_vars

-----------------------------------------------------------------------------
(* Claims about the directory tools *)

\* C4: every invocation of a tool returns a string and no exception
\* propagates to the caller, also on directories and files that cannot be read.
C4_NoExceptionPropagates == calls # <<>> => raised = "" /\ result # NoResult

\* The name matches a pattern of the default ignore set
MatchesDefaultIgnore(name) ==
    \E i \in 1..Len(DEFAULT_IGNORE_PATTERNS) :
        fnmatchcase(normcase(name), normcase(DEFAULT_IGNORE_PATTERNS[i]))

C9_WitnessList ==
    /\ calls # <<>> /\ LastCall.tool = "ls" /\ LastCall.path = P_R
    /\ LastCall.ignore = NoneList /\ LastCall.match = NoneList
    /\ dirs[P_GIT].kind = "dir" /\ dirs[P_SRC].kind = "dir" /\ dirs[P_NOTES].kind = "absent"
    /\ result.text = ContentsOf
    /\ result.body = <<[name |-> <<"s", "r", "c">>, is_dir |-> TRUE]>>

C9_WitnessSearch ==
    /\ calls # <<>> /\ LastCall.tool = "grep" /\ LastCall.paths = <<P_SRC>>
    /\ LastCall.pattern = <<"a">> /\ LastCall.case_sensitive /\ ~LastCall.invert
    /\ dirs[P_M_PYC].kind = "file" /\ dirs[P_MAIN_PY].kind = "file" /\ os_name = "nt"
    /\ result.text = MatchesFor
    /\ result.body = <<[file |-> P_MAIN_PY, line_num |-> 1, content |-> <<"a">>]>>

\* The immediate children of a directory that the list is to show: those whose
\* name matches a match pattern (all when match is absent or empty) and
\* matches neither an ignore pattern of the caller nor a default one
ListedChildren(path, match, ignore) ==
    {q \in NodePaths :
        /\ Len(q) = Len(path) + 1 /\ SubSeq(q, 1, Len(path)) = path
        /\ dirs[q].kind # "absent"
        /\ (match = NoneList \/ match = <<>>
              \/ \E i \in 1..Len(match) : fnmatch(path_name(q), match[i]))
        /\ ignore # NoneList =>
              \A i \in 1..Len(ignore) : ~fnmatch(path_name(q), ignore[i])
        /\ \A i \in 1..Len(DEFAULT_IGNORE_PATTERNS) :
              ~fnmatch(path_name(q), DEFAULT_IGNORE_PATTERNS[i])}

\* The lines of a listing are in order: no line that is not a directory comes
\* before a directory, and among the directories and among the others the
\* names ascend when compared in lower case
ListingOrdered(body) ==
    \A i, j \in 1..Len(body) :
        i < j =>
            /\ ~(~body[i].is_dir /\ body[j].is_dir)
            /\ body[i].is_dir = body[j].is_dir =>
                  str_less(lower(body[i].name), lower(body[j].name))

\* C11: list(path, match, ignore) of a readable directory returns exactly the
\* immediate children that pass match and no ignore pattern, directories
\* before files and then by case-insensitive name, a directory shown with a
\* trailing slash, and the No items found result when no child is left.
C11_ListIsExactAndOrdered ==
    (/\ calls # <<>> /\ LastCall.tool = "ls"
     /\ path_is_absolute(LastCall.path) /\ path_is_dir(dirs, LastCall.path)
     /\ dirs[LastCall.path].readable) =>
        IF ListedChildren(LastCall.path, LastCall.match, LastCall.ignore) = {}
        THEN result.text = NoItems
        ELSE /\ result.text = ContentsOf
             /\ {[name |-> path_name(q), is_dir |-> dirs[q].kind = "dir"] :
                    q \in ListedChildren(LastCall.path, LastCall.match, LastCall.ignore)}
                  = {result.body[i] : i \in 1..Len(result.body)}
             /\ Len(result.body)
                  = Cardinality(ListedChildren(LastCall.path, LastCall.match, LastCall.ignore))
             /\ ListingOrdered(result.body)

\* The error results of the validation of a path
ValidationErrors ==
    {NotAbsolute, DoesNotExist, NotADirectory, GrepNotAbsolute, GrepDoesNotExist}

\* C19: when list, tree or search returns the error of a path that is not
\* absolute, does not exist or is of the wrong kind, the call has enumerated
\* no directory and opened no file, also not a valid directory that comes
\* before the invalid path in the paths of a search.
C19_ErrorBeforeTraversal ==
    (calls # <<>> /\ result.text \in ValidationErrors) =>
        LastCall.enumerated = {} /\ LastCall.opened = {}

-----------------------------------------------------------------------------
(* The console: the strings the text editor tool returns, as characters *)

FENCE == <<BACKQUOTE, BACKQUOTE, BACKQUOTE>>

DigitChars == <<"0", "1", "2", "3", "4", "5", "6", "7", "8", "9">>

\* str(n) for n >= 0
RECURSIVE str_nat(_)
str_nat(n) ==
    IF n < 10 THEN <<DigitChars[n + 1]>>
    ELSE str_nat(n \div 10) \o <<DigitChars[(n % 10) + 1]>>

\* str(n)
str_int(n) == IF n < 0 THEN <<"-">> \o str_nat(-n) ELSE str_nat(n)

\* f"{s:>3}"
RECURSIVE rjust3(_)
rjust3(s) == IF Len(s) >= 3 THEN s ELSE rjust3(<<" ">> \o s)

\* The text of TextEditor._content_with_line_numbers:
\* "\n".join(f"{i + init_line:>3} | {line}" ...)
numbered_text(body) ==
    PyJoin([i \in 1..Len(body) |->
                rjust3(str_int(body[i].num)) \o <<" ", "|", " ">> \o body[i].line],
           <<LF>>)

ViewMarker == <<"H", "e", "r", "e", "'", "s", " ", "t", "h", "e", " ", "r", "e", "s", "u", "l", "t", " ", "o", "f", " ", "r", "u", "n", "n", "i", "n", "g">>

\* The string of a result of text_editor_tool: its f-string with the values
\* substituted
fstring(r) ==
    CASE r.text = "Here's the result of running 'cat -n' on {_path}:\n\n'''\n{view}\n'''" ->
           ViewMarker \o <<" ", BACKQUOTE>> \o <<"c", "a", "t", " ", "-", "n">> \o <<BACKQUOTE>> \o <<" ", "o", "n", " ">>
             \o r.path \o <<":", LF, LF>> \o FENCE \o <<LF>>
             \o numbered_text(r.body) \o <<LF>> \o FENCE
      [] r.text = "Successfully replaced {occurrences} occurrences in {_path}." ->
           <<"S", "u", "c", "c", "e", "s", "s", "f", "u", "l", "l", "y", " ", "r", "e", "p", "l", "a", "c", "e", "d", " ">> \o str_int(r.num) \o <<" ", "o", "c", "c", "u", "r", "r", "e", "n", "c", "e", "s", " ", "i", "n", " ">>
             \o r.path \o <<".">>
      [] r.text = "Successfully inserted text at line {insert_line} in {path}." ->
           <<"S", "u", "c", "c", "e", "s", "s", "f", "u", "l", "l", "y", " ", "i", "n", "s", "e", "r", "t", "e", "d", " ", "t", "e", "x", "t", " ", "a", "t", " ", "l", "i", "n", "e", " ">> \o str_int(r.num) \o <<" ", "i", "n", " ">>
             \o r.path \o <<".">>
      [] r.text = "File successfully created at {_path}." ->
           <<"F", "i", "l", "e", " ", "s", "u", "c", "c", "e", "s", "s", "f", "u", "l", "l", "y", " ", "c", "r", "e", "a", "t", "e", "d", " ", "a", "t", " ">> \o r.path \o <<".">>
      [] r.text = "Error: the path {_path} is a directory. Please provide a valid file path." ->
           <<"E", "r", "r", "o", "r", ":", " ", "t", "h", "e", " ", "p", "a", "t", "h", " ">> \o r.path
             \o <<" ", "i", "s", " ", "a", " ", "d", "i", "r", "e", "c", "t", "o", "r", "y", ".", " ", "P", "l", "e", "a", "s", "e", " ", "p", "r", "o", "v", "i", "d", "e", " ", "a", " ", "v", "a", "l", "i", "d", " ", "f", "i", "l", "e", " ", "p", "a", "t", "h", ".">>
      [] r.text = "Error: File does not exist: {path}" ->
           <<"E", "r", "r", "o", "r", ":", " ", "F", "i", "l", "e", " ", "d", "o", "e", "s", " ", "n", "o", "t", " ", "e", "x", "i", "s", "t", ":", " ">> \o r.path
      [] r.text = "Error: Path is not a file: {path}" ->
           <<"E", "r", "r", "o", "r", ":", " ", "P", "a", "t", "h", " ", "i", "s", " ", "n", "o", "t", " ", "a", " ", "f", "i", "l", "e", ":", " ">> \o r.path
      [] r.text = "Error: String not found in file: {path}" ->
           <<"E", "r", "r", "o", "r", ":", " ", "S", "t", "r", "i", "n", "g", " ", "n", "o", "t", " ", "f", "o", "u", "n", "d", " ", "i", "n", " ", "f", "i", "l", "e", ":", " ">> \o r.path
      [] r.text = "Error: The path {path} is not an absolute path, it should start with '/'. Do you mean {suggested_path}?" ->
           <<"E", "r", "r", "o", "r", ":", " ", "T", "h", "e", " ", "p", "a", "t", "h", " ">> \o r.path
             \o <<" ", "i", "s", " ", "n", "o", "t", " ", "a", "n", " ", "a", "b", "s", "o", "l", "u", "t", "e", " ", "p", "a", "t", "h", ",", " ", "i", "t", " ", "s", "h", "o", "u", "l", "d", " ", "s", "t", "a", "r", "t", " ", "w", "i", "t", "h", " ">>
             \o <<BACKQUOTE, "/", BACKQUOTE>> \o <<".", " ", "D", "o", " ", "y", "o", "u", " ", "m", "e", "a", "n", " ">> \o r.path \o <<"?">>

-----------------------------------------------------------------------------
(* The console: the regular expressions of handle_tool_result *)

\* No match of re.search; a match is the one-element sequence of its group
NoMatch == <<>>

\* str.find(sub, start)
find_from(s, sub, start) ==
    LET f == Find(Tail_(s, start), sub)
    IN  IF f = 0 THEN 0 ELSE f + start - 1

\* The least index from start on at which s has a character of stop, 0 when none
RECURSIVE first_of(_, _, _)
first_of(s, start, stop) ==
    IF start > Len(s) THEN 0
    ELSE IF s[start] \in stop THEN start
    ELSE first_of(s, start + 1, stop)

Letters == {AsciiFrom32[i] : i \in 34..59} \cup {AsciiFrom97[i] : i \in 1..26}

Separators == {"/", "\\"}

\* t matches (?:[\\/][^\\/:\n]+)*[\\/]?[^\\/:\n]* : no separator at all, or
\* a separator first and no two separators in a row
path_body_matches(t) ==
    /\ \A i \in 1..Len(t) : t[i] \notin {":", LF}
    /\ \/ \A i \in 1..Len(t) : t[i] \notin Separators
       \/ /\ t # <<>> /\ t[1] \in Separators
          /\ \A i \in 1..(Len(t) - 1) : ~(t[i] \in Separators /\ t[i + 1] \in Separators)

\* The index of the ":" that ends a path body started at b, 0 when the body
\* cannot be followed by ":"
path_body_end(s, b) ==
    LET c == first_of(s, b, {":", LF})
    IN  IF c > 0 /\ s[c] = ":" /\ path_body_matches(SubSeq(s, b, c - 1)) THEN c ELSE 0

\* ((?:[a-zA-Z]:)?(?:[\\/][^\\/:\n]+)*[\\/]?[^\\/:\n]*): tried at index g:
\* with the drive first, then without it
path_group_at(s, g) ==
    IF /\ g + 1 <= Len(s) /\ s[g] \in Letters /\ s[g + 1] = ":"
       /\ path_body_end(s, g + 2) > 0
    THEN <<SubSeq(s, g, path_body_end(s, g + 2) - 1)>>
    ELSE IF path_body_end(s, g) > 0
    THEN <<SubSeq(s, g, path_body_end(s, g) - 1)>>
    ELSE NoMatch

\* The number of whitespace characters of s from index j on
RECURSIVE ws_run(_, _)
ws_run(s, j) ==
    IF j <= Len(s) /\ s[j] \in Whitespace THEN 1 + ws_run(s, j + 1) ELSE 0

\* \s+ followed by the group: the longest run of whitespace first
RECURSIVE ws_then_group(_, _, _)
ws_then_group(s, j, w) ==
    IF w < 1 THEN NoMatch
    ELSE IF path_group_at(s, j + w) # NoMatch THEN path_group_at(s, j + w)
    ELSE ws_then_group(s, j, w - 1)

\* .*?on\s+ followed by the group, from index k on: the nearest "on" first,
\* and . matches no newline
RECURSIVE lazy_on(_, _)
lazy_on(s, k) ==
    IF k + 2 > Len(s) THEN NoMatch
    ELSE IF /\ s[k] = "o" /\ s[k + 1] = "n"
            /\ ws_then_group(s, k + 2, ws_run(s, k + 2)) # NoMatch
    THEN ws_then_group(s, k + 2, ws_run(s, k + 2))
    ELSE IF s[k] = LF THEN NoMatch
    ELSE lazy_on(s, k + 1)

\* re.search(r'Here\'s the result of running.*?on\s+(...):', s) from the
\* occurrence of the marker at or after start
RECURSIVE view_search(_, _)
view_search(s, start) ==
    LET i == find_from(s, ViewMarker, start)
    IN  IF i = 0 THEN NoMatch
        ELSE IF lazy_on(s, i + Len(ViewMarker)) # NoMatch
        THEN lazy_on(s, i + Len(ViewMarker))
        ELSE view_search(s, i + 1)

view_match(tool_result) == view_search(tool_result, 1)

\* re.search(r'[fence]\n(.*?)[fence]', tool_result, re.DOTALL)
content_match(tool_result) ==
    LET f == Find(tool_result, FENCE \o <<LF>>)
        e == find_from(tool_result, FENCE, f + 4)
    IN  IF f = 0 \/ e = 0 THEN NoMatch ELSE <<SubSeq(tool_result, f + 4, e - 1)>>

\* .*? followed by the literal lit, from index start on: the index of the
\* nearest lit with no newline before it, 0 when none
lazy_until(s, start, lit) ==
    LET p == find_from(s, lit, start)
        n == first_of(s, start, {LF})
    IN  IF p > 0 /\ (n = 0 \/ n >= p) THEN p ELSE 0

\* The patterns of path_patterns: a literal, .*? up to a second literal (none
\* when empty), the group (.*?) and the literal that ends it
path_patterns ==
    << [first |-> <<"S", "u", "c", "c", "e", "s", "s", "f", "u", "l", "l", "y", " ", "r", "e", "p", "l", "a", "c", "e", "d", " ">>, then |-> <<" ", "o", "c", "c", "u", "r", "r", "e", "n", "c", "e", "s", " ", "i", "n", " ">>, end |-> <<".">>],
       [first |-> <<"S", "u", "c", "c", "e", "s", "s", "f", "u", "l", "l", "y", " ", "i", "n", "s", "e", "r", "t", "e", "d", " ", "t", "e", "x", "t", " ", "a", "t", " ", "l", "i", "n", "e", " ">>, then |-> <<" ", "i", "n", " ">>, end |-> <<".">>],
       [first |-> <<"F", "i", "l", "e", " ", "s", "u", "c", "c", "e", "s", "s", "f", "u", "l", "l", "y", " ", "c", "r", "e", "a", "t", "e", "d", " ", "a", "t", " ">>, then |-> <<>>, end |-> <<".">>],
       [first |-> <<"F", "i", "l", "e", " ", "d", "o", "e", "s", " ", "n", "o", "t", " ", "e", "x", "i", "s", "t", ":", " ">>, then |-> <<>>, end |-> <<".">>],
       [first |-> <<"P", "a", "t", "h", " ", "i", "s", " ", "n", "o", "t", " ", "a", " ", "f", "i", "l", "e", ":", " ">>, then |-> <<>>, end |-> <<".">>],
       [first |-> <<"E", "r", "r", "o", "r", ":", " ", "t", "h", "e", " ", "p", "a", "t", "h", " ">>, then |-> <<>>, end |-> <<" ", "i", "s", " ", "a", " ", "d", "i", "r", "e", "c", "t", "o", "r", "y", ".">>] >>

\* re.search(pattern, s) from the occurrence of the first literal at or after start
RECURSIVE pattern_search(_, _, _)
pattern_search(pattern, s, start) ==
    LET i == find_from(s, pattern.first, start)
        p == lazy_until(s, i + Len(pattern.first), pattern.then)
        g == p + Len(pattern.then)
        e == lazy_until(s, g, pattern.end)
    IN  IF i = 0 THEN NoMatch
        ELSE IF p > 0 /\ e > 0 THEN <<SubSeq(s, g, e - 1)>>
        ELSE pattern_search(pattern, s, i + 1)

\* if (file_path.startswith('"') and file_path.endswith('"')) or (... "'" ...):
\*     file_path = file_path[1:-1]
strip_quotes(file_path) ==
    IF file_path # <<>> /\ Head(file_path) \in {"\"", "'"}
       /\ file_path[Len(file_path)] = Head(file_path)
    THEN SubSeq(file_path, 2, Len(file_path) - 1)
    ELSE file_path

\* The loop over path_patterns: the stripped group of the first pattern that
\* matches, None when no pattern matches
RECURSIVE first_path_match(_, _)
first_path_match(tool_result, k) ==
    IF k > Len(path_patterns) THEN None
    ELSE IF pattern_search(path_patterns[k], tool_result, 1) # NoMatch
    THEN strip_quotes(Strip(pattern_search(path_patterns[k], tool_result, 1)[1]))
    ELSE first_path_match(tool_result, k + 1)

\* any(cmd in tool_result.lower() for cmd in ['created', 'replaced', 'inserted'])
names_an_edit(tool_result) ==
    \E cmd \in {<<"c", "r", "e", "a", "t", "e", "d">>, <<"r", "e", "p", "l", "a", "c", "e", "d">>, <<"i", "n", "s", "e", "r", "t", "e", "d">>} : Contains(lower(tool_result), cmd)

-----------------------------------------------------------------------------
(* The console: EditorTabs and the handling of tool results.  The console  *)
(* is modelled on a POSIX host, with the directory /d as working directory *)

FILE_PY == <<"/", "a", ".", "p">>
FILE_CREATED == <<"/", "a", ".", "c", "r", "e", "a", "t", "e", "d">>
CWD_A == <<"/", "d", "/", "a">>

\* Path.cwd()
cwd == DIR_D

\* str(Path(s)) for a string without "." and ".." components: repeated and
\* trailing separators are dropped, the empty path is "."
RECURSIVE collapse_slashes(_)
collapse_slashes(s) ==
    IF Len(s) < 2 THEN s
    ELSE IF s[1] = "/" /\ s[2] = "/" THEN collapse_slashes(Tail(s))
    ELSE <<s[1]>> \o collapse_slashes(Tail(s))

PurePath(s) ==
    LET c == collapse_slashes(s)
    IN  IF c = <<>> THEN <<".">>
        ELSE IF Len(c) > 1 /\ c[Len(c)] = "/" THEN SubSeq(c, 1, Len(c) - 1)
        ELSE c

\* Path.cwd() / path_obj for a relative path_obj
cwd_join(path_obj) ==
    IF path_obj = <<".">> THEN cwd ELSE cwd \o <<"/">> \o path_obj

\* The file the host opens for the path string s: a relative path is taken
\* from the working directory
on_disk(s) == IF is_absolute(PurePath(s)) THEN PurePath(s) ELSE cwd_join(PurePath(s))

\* d[k] = v
Put(d, k, v) == [x \in DOMAIN d \cup {k} |-> IF x = k THEN v ELSE d[x]]

\* The state of EditorTabs
EditorTabs(open_files, current_file, text, tab_buttons) ==
    [_open_files |-> open_files, _current_file |-> current_file,
     text_area |-> text, tabs |-> tab_buttons]

\* EditorTabs.open_file: the state of EditorTabs after the call
open_file(fs, ui, file_path) ==
    IF ~exists(fs, on_disk(file_path)) \/ ~is_file(fs, on_disk(file_path))
    THEN ui
    ELSE EditorTabs(Put(ui._open_files, file_path, read_file(fs, on_disk(file_path))),
                    file_path,
                    read_file(fs, on_disk(file_path)),
                    DOMAIN ui._open_files \cup {file_path})

\* EditorTabs.save_file: the state of EditorTabs and the file system after
\* the call; writing to a directory raises, which save_file catches
save_file(fs, ui) ==
    IF ui._current_file = None THEN [ui |-> ui, fs |-> fs]
    ELSE [ui |-> [ui EXCEPT !._open_files =
                      Put(ui._open_files, ui._current_file, ui.text_area)],
          fs |-> IF is_dir(fs, on_disk(ui._current_file)) THEN fs
                 ELSE write_file(fs, on_disk(ui._current_file), ui.text_area)]

\* on_text_area_changed that stores the text also when no file is open
on_text_area_changed_unguarded(ui, text) ==
    [ui EXCEPT !._open_files = Put(ui._open_files, ui._current_file, text),
               !.text_area = text]

\* EditorTabs.on_text_area_changed, the text area now holding text
on_text_area_changed(ui, text) ==
    IF ui._current_file # None
    THEN [ui EXCEPT !._open_files = Put(ui._open_files, ui._current_file, text),
                    !.text_area = text]
    ELSE [ui EXCEPT !.text_area = WelcomeText]

\* EditorTabs.on_button_pressed for the tab button of file_path
on_button_pressed(fs, ui, file_path) ==
    IF file_path \in DOMAIN ui._open_files
    THEN open_file(fs, [ui EXCEPT !._current_file = file_path], file_path)
    ELSE ui

\* handle_tool_result, a view-style result: file_path for the match m of
\* the marker
viewed_file_path(m) == PyReplace(strip_quotes(Strip(m[1])), <<"\\">>, <<"/">>)

\* handle_tool_result, a view-style result: path_obj for the match m of
\* the marker
viewed_path(m) ==
    IF is_absolute(PurePath(viewed_file_path(m))) THEN PurePath(viewed_file_path(m))
    ELSE cwd_join(PurePath(viewed_file_path(m)))

\* view_result that makes a file that is not on disk current without
\* storing its content
view_result_uncached(fs, ui, tool_result, m) ==
    LET path_obj == viewed_path(m)
    IN  IF ~exists(fs, path_obj) \/ ~is_file(fs, path_obj)
        THEN IF content_match(tool_result) # NoMatch
             THEN [ui EXCEPT !._current_file = path_obj]
             ELSE ui
        ELSE open_file(fs, ui, path_obj)

\* handle_tool_result, a view-style result: m is the match of the marker
view_result(fs, ui, tool_result, m) ==
    LET path_obj == viewed_path(m)
    IN  IF ~exists(fs, path_obj) \/ ~is_file(fs, path_obj)
        THEN IF content_match(tool_result) # NoMatch
             THEN [ui EXCEPT !._current_file = path_obj,
                             !._open_files = Put(ui._open_files, path_obj,
                                                 content_match(tool_result)[1])]
             ELSE ui
        ELSE open_file(fs, ui, path_obj)

\* handle_tool_result, any other result: file_path is what the patterns gave
edit_result(fs, ui, tool_result, file_path) ==
    IF /\ file_path # None /\ file_path # <<>>
       /\ names_an_edit(tool_result)
       /\ (file_path \in DOMAIN ui._open_files \/ file_path = ui._current_file)
    THEN open_file(fs, ui, file_path)
    ELSE ui

\* CodeAgentConsole.handle_tool_result: the state of EditorTabs after it
handle_tool_result(fs, ui, tool_name, tool_result) ==
    IF tool_name # "text_editor" THEN ui
    ELSE IF view_match(tool_result) # NoMatch
    THEN view_result(fs, ui, tool_result, view_match(tool_result))
    ELSE edit_result(fs, ui, tool_result, first_path_match(tool_result, 1))

\* A ToolMessage; call is the tool call it answers
ToolMessage(name, content, call) ==
    [type |-> "tool", name |-> name, content |-> content, call |-> call]

\* ToolMessage(content=tool_result): it has no name and answers no call
ResultMessage(content) == [type |-> "tool", content |-> content]

\* _process_incoming_message that leaves the message out of the chat view
_process_incoming_message_unlogged(message, log, pending) ==
    [messages |-> log,
     tasks |-> IF message.type = "tool" THEN Append(pending, message) ELSE pending]

\* CodeAgentConsole._process_incoming_message: the message is added to the
\* chat view, then for a ToolMessage the task that handles it is created
_process_incoming_message(message, log, pending) ==
    [messages |-> Append(log, message),
     tasks |-> IF message.type = "tool" THEN Append(pending, message) ELSE pending]

-----------------------------------------------------------------------------
(* The console: tool messages arrive, their tasks run, the user edits *)

MaxResults == 2

ConsoleDiskPaths == {FILE_A, FILE_PY, DIR_D, CWD_A}

\* FILE_A absent or a file; FILE_PY and the file a in the working directory
\* are files; no file FILE_CREATED
InitConsoleDisk ==
    \E bytes \in {NoFile, <<"a">>} :
        disk = [p \in ConsoleDiskPaths |->
                    IF p = DIR_D THEN IsDir
                    ELSE IF p = FILE_A THEN bytes
                    ELSE IF p = FILE_PY THEN <<"a">> ELSE <<"b">>]

InitSync ==
    /\ os_name = "posix"
    /\ InitConsoleDisk
    /\ result = NoResult
    /\ raised = ""
    /\ calls = <<>>
    /\ BashIdle
    /\ DirsIdle
    /\ ConsoleIdle

UiNow == EditorTabs(_open_files, _current_file, text_area, tabs)

SetUi(ui) ==
    /\ _open_files' = ui._open_files
    /\ _current_file' = ui._current_file
    /\ text_area' = ui.text_area
    /\ tabs' = ui.tabs

uiVars == <<_open_files, _current_file, text_area, tabs>>

syncIdle == <<os_name, raised, bashVars, dirs, _is_generating, workers>>

\* The calls of the text editor tool the agent makes
EditorToolCalls ==
    {[command |-> "view", path |-> p, file_text |-> None, old_str |-> None,
      new_str |-> None, insert_line |-> <<>>] :
        p \in {FILE_A, FILE_PY, REL_A, FILE_CREATED}}
    \cup
    {[command |-> "create", path |-> p, file_text |-> <<"b">>, old_str |-> None,
      new_str |-> None, insert_line |-> <<>>] : p \in {FILE_A, FILE_PY}}
    \cup
    {[command |-> "str_replace", path |-> p, file_text |-> None, old_str |-> <<"a">>,
      new_str |-> <<"b">>, insert_line |-> <<>>] : p \in {FILE_PY}}
    \cup
    {[command |-> "insert", path |-> p, file_text |-> None, old_str |-> None,
      new_str |-> <<"b">>, insert_line |-> <<0>>] : p \in {FILE_A}}

\* The message of a tool arrives: _process_incoming_message
ArrivesWithin(message, bound) ==
    /\ Len(calls) < bound
    /\ calls' = Append(calls, message.call)
    /\ messages' = _process_incoming_message(message, messages, tasks).messages
    /\ tasks' = _process_incoming_message(message, messages, tasks).tasks
    /\ event' = [handler |-> "_process_incoming_message", message |-> message]
    /\ UNCHANGED <<uiVars, syncIdle>>

Arrives(message) == ArrivesWithin(message, MaxResults)

\* The agent makes the call of the text editor tool and the stream yields
\* the message of its result
CallMessageWithin(call, bound) ==
    LET out == text_editor_tool(disk, call.command, call.path, call.file_text,
                                <<>>, call.old_str, call.new_str, call.insert_line)
    IN  /\ disk' = out.fs
        /\ result' = out.result
        /\ ArrivesWithin(ToolMessage("text_editor", fstring(out.result),
                                     call @@ [written |-> call.path,
                                              succeeded |-> ~StartsWith(fstring(out.result),
                                                                        <<"E", "r", "r", "o", "r", ":", " ">>)]),
                         bound)

CallMessage(call) == CallMessageWithin(call, MaxResults)

TextEditorMessage == \E call \in EditorToolCalls : CallMessage(call)

\* The ways a result can write the path of a view
written_as(path, form) ==
    CASE form = "slash" -> path
      [] form = "backslash" -> PyReplace(path, <<"/">>, <<"\\">>)
      [] form = "single quotes" -> <<"'">> \o path \o <<"'">>
      [] form = "double quotes" -> <<"\"">> \o path \o <<"\"">>
      [] form = "relative" -> Tail_(path, Len(cwd) + 2)

\* The view-style result of a view of path, the path written in some form
view_style(fs, path, form, fenced) ==
    IF fenced
    THEN fstring(Returned("Here's the result of running 'cat -n' on {_path}:\n\n'''\n{view}\n'''",
                          written_as(path, form), 0,
                          _content_with_line_numbers(
                              IF is_file(fs, path) THEN read_file(fs, path) ELSE <<"a">>, 1)))
    ELSE ViewMarker \o <<" ", "o", "n", " ">> \o written_as(path, form) \o <<":">>

\* The view-style messages that arrive from tools other than text_editor_tool
\* itself: written with back-slashes or in quotes, relative to the working
\* directory, without the fenced block, or under another tool's name
OtherViews ==
    {[name |-> "text_editor", path |-> FILE_A, form |-> f, fenced |-> TRUE] :
        f \in {"slash", "backslash", "single quotes", "double quotes"}}
    \cup {[name |-> "text_editor", path |-> CWD_A, form |-> "relative", fenced |-> TRUE],
          [name |-> "text_editor", path |-> FILE_A, form |-> "slash", fenced |-> FALSE],
          [name |-> "bash", path |-> FILE_A, form |-> "slash", fenced |-> TRUE]}

\* The stream yields a view-style message that text_editor_tool did not
\* write itself
ViewStyleArrives(v) ==
    /\ UNCHANGED <<disk, result>>
    /\ Arrives(ToolMessage(v.name, view_style(disk, v.path, v.form, v.fenced),
                           [command |-> "view", path |-> v.path,
                            written |-> written_as(v.path, v.form),
                            succeeded |-> TRUE]))

ViewStyleMessage == \E v \in OtherViews : ViewStyleArrives(v)

\* The task _call_handle_tool_result of the oldest message runs:
\* handle_tool_result with message.name and message.content.  Its last
\* statement adds ToolMessage(content=tool_result), a message without the
\* tool_call_id, to the chat view: the constructor accepts that or raises,
\* and _call_handle_tool_result catches what it raises.
HandleToolResult ==
    /\ tasks # <<>>
    /\ SetUi(handle_tool_result(disk, UiNow, Head(tasks).name, Head(tasks).content))
    /\ \E added \in BOOLEAN :
          messages' = IF added
                      THEN Append(messages, ResultMessage(Head(tasks).content))
                      ELSE messages
    /\ tasks' = Tail(tasks)
    /\ event' = [handler |-> "handle_tool_result", message |-> Head(tasks),
                 before |-> UiNow, disk |-> disk]
    /\ UNCHANGED <<disk, result, calls, syncIdle>>

NextSync == TextEditorMessage \/ ViewStyleMessage \/ HandleToolResult

SpecSync == InitSync /\ [][NextSync]_vars

-----------------------------------------------------------------------------
(* The console: the agent views files while the user edits, saves and      *)
(* switches tabs                                                           *)

\* The agent views a file
ViewMessage ==
    \E call \in {c \in EditorToolCalls : c.command = "view"} : CallMessage(call)

\* The user types in the text area
TextAreaChanged ==
    /\ SetUi(on_text_area_changed(UiNow, <<"b", "b">>))
    /\ event' = [handler |-> "on_text_area_changed"]
    /\ UNCHANGED <<disk, result, calls, messages, tasks, syncIdle>>

\* The user presses the save button
SaveButtonPressed ==
    /\ SetUi(save_file(disk, UiNow).ui)
    /\ disk' = save_file(disk, UiNow).fs
    /\ event' = [handler |-> "save_file"]
    /\ UNCHANGED <<result, calls, messages, tasks, syncIdle>>

\* The user presses a tab button
TabButtonPressed ==
    \E file_path \in tabs :
        /\ SetUi(on_button_pressed(disk, UiNow, file_path))
        /\ event' = [handler |-> "on_button_pressed", file_path |-> file_path]
        /\ UNCHANGED <<disk, result, calls, messages, tasks, syncIdle>>

NextEditing ==
    \/ ViewMessage
    \/ HandleToolResult
    \/ TextAreaChanged
    \/ SaveButtonPressed
    \/ TabButtonPressed

SpecEditing == InitSync /\ [][NextEditing]_vars


-----------------------------------------------------------------------------
(* Claims about the handling of tool results *)

\* The result of a successful create, str_replace or insert on the file
\* that was displayed has just been handled
EditOfDisplayedHandled ==
    /\ event.handler = "handle_tool_result"
    /\ event.message.name = "text_editor"
    /\ event.message.call.command \in {"create", "str_replace", "insert"}
    /\ event.message.call.succeeded
    /\ event.before._current_file = event.message.call.path

\* C12: when the result of a successful create, str_replace or insert on the
\* displayed file P is handled, the entry of P in the displayed-file cache
\* becomes the content of P on disk, for a path with an extension as for a
\* path without one.
C12_EditRefreshesDisplayedFile ==
    EditOfDisplayedHandled =>
        /\ event.message.call.path \in DOMAIN _open_files
        /\ _open_files[event.message.call.path] = read_file(disk, event.message.call.path)

\* The forms in which a view-style result may write the path, per the
\* handling of tool results: either separator, optional quotes
ToleratedForms == {"slash", "backslash", "single quotes", "double quotes"}

\* A view-style result that embeds the absolute path of a file that exists
\* has just been handled
ViewOfExistingHandled ==
    /\ event.handler = "handle_tool_result"
    /\ event.message.name = "text_editor"
    /\ event.message.call.command = "view"
    /\ Contains(event.message.content, ViewMarker)
    /\ is_absolute(event.message.call.path)
    /\ is_file(event.disk, event.message.call.path)
    /\ \E form \in ToleratedForms :
          event.message.call.written = written_as(event.message.call.path, form)

\* C13: when a view-style result that embeds the absolute path P of an
\* existing file is handled, with either separator and with or without
\* quotes around P, P becomes the current path and the cache entry of P is
\* the content of the file.
C13_ViewOpensEmbeddedPath ==
    ViewOfExistingHandled =>
        /\ _current_file = event.message.call.path
        /\ event.message.call.path \in DOMAIN _open_files
        /\ _open_files[event.message.call.path] = read_file(disk, event.message.call.path)

\* The result that has just been handled gave no path and no content block:
\* it is not of the text editor tool, or it has no view marker and matches
\* none of the replaced, inserted and created patterns, or the path of its
\* view marker does not exist and it has no fenced block
NothingObtained ==
    /\ event.handler = "handle_tool_result"
    /\ \/ event.message.name # "text_editor"
       \/ /\ view_match(event.message.content) = NoMatch
          /\ \A k \in 1..3 :
                pattern_search(path_patterns[k], event.message.content, 1) = NoMatch
       \/ /\ view_match(event.message.content) # NoMatch
          /\ ~exists(event.disk, viewed_path(view_match(event.message.content)))
          /\ content_match(event.message.content) = NoMatch

\* C14: handling a result that gives no path and no content block leaves
\* the displayed-file cache, its map and its current path, as it was.
C14_NothingObtainedNothingChanged ==
    NothingObtained =>
        /\ _open_files = event.before._open_files
        /\ _current_file = event.before._current_file

\* The tool messages handed to the handling of tool results so far: those
\* whose task is pending and the one handled last
HandedOver ==
    {tasks[i] : i \in 1..Len(tasks)}
      \cup (IF event.handler = "handle_tool_result" THEN {event.message} ELSE {})

\* C15: the raw string of every tool result handed to the handling of tool
\* results is in the conversation log, whether the handling found a path,
\* found none, or raised while it updated the editor; the message is logged
\* before its task is created, so the handling cannot hold it back.
C15_HandedResultIsLogged ==
    \A m \in HandedOver : \E i \in 1..Len(messages) : messages[i].content = m.content

\* A view-style result of a missing file has been handled: the editor was
\* updated from the fenced block, the update of the display raised, and the
\* handling itself added nothing to the log
C15_Witness ==
    /\ event.handler = "handle_tool_result"
    /\ event.message.name = "text_editor"
    /\ view_match(event.message.content) # NoMatch
    /\ ~is_file(event.disk, viewed_path(view_match(event.message.content)))
    /\ content_match(event.message.content) # NoMatch
    /\ tasks = <<>>
    /\ Len(messages) = Len(calls)

-----------------------------------------------------------------------------
(* Claims about the events that change the displayed-file cache *)

OthersUnchanged(path) ==
    \A p \in DOMAIN _open_files : p # path => _open_files'[p] = _open_files[p]

-----------------------------------------------------------------------------
(* Claims about relative paths *)

\* The path under the working directory that the relative path of the
\* view-style result stands for
UnderCwd(tool_result) == cwd_join(PurePath(viewed_file_path(view_match(tool_result))))

\* C20: no relative path is resolved against the working directory.  A call
\* of the text editor tool with a relative path returns an error and leaves
\* every file as it was, and the handling of a view-style result whose path
\* is relative makes no path under the working directory the current path
\* or a path of the map.
C20_NoRelativePathResolved ==
    [][/\ (/\ event'.handler = "_process_incoming_message"
           /\ event'.message.name = "text_editor"
           /\ ~is_absolute(event'.message.call.path)) =>
              /\ disk' = disk
              /\ StartsWith(event'.message.content, <<"E", "r", "r", "o", "r", ":">>)
       /\ (/\ event'.handler = "handle_tool_result"
           /\ event'.message.name = "text_editor"
           /\ view_match(event'.message.content) # NoMatch
           /\ ~is_absolute(PurePath(viewed_file_path(view_match(event'.message.content))))) =>
              /\ _current_file' = UnderCwd(event'.message.content) =>
                    _current_file = UnderCwd(event'.message.content)
              /\ UnderCwd(event'.message.content) \in DOMAIN _open_files' =>
                    UnderCwd(event'.message.content) \in DOMAIN _open_files]_vars

-----------------------------------------------------------------------------
(* The console: turns.  A submission that on_input_submitted accepts       *)
(* creates a worker for _handle_user_input; the worker, its indicator task *)
(* and the tasks that handle tool results run as the event loop schedules  *)
(* them.                                                                   *)

MaxTurns == 2
MaxChunks == 2

HumanMessage(content) == [type |-> "human", content |-> content]
AIMessage(content) == [type |-> "ai", content |-> content]

\* A worker of _handle_user_input: pc is where it stands, loading is the
\* state of its task _show_loading_animation, chunks the chunks it has
\* consumed
Worker(user_message, pc, loading, chunks) ==
    [user_message |-> user_message, pc |-> pc, loading |-> loading,
     chunks |-> chunks]

\* The finally block of _handle_user_input up to its await:
\* loading_task.cancel(), then await loading_task
after_stream_uncancelled(worker) == [worker EXCEPT !.pc = "awaiting"]

after_stream(worker) == [worker EXCEPT !.pc = "awaiting", !.loading = "cancelling"]

\* Worker.cancel(): a worker that has not started never runs; one that
\* consumes the stream gets CancelledError there and enters its finally block
cancel(worker) ==
    IF worker.pc = "created" THEN [worker EXCEPT !.pc = "cancelled"]
    ELSE IF worker.pc = "streaming" THEN after_stream(worker)
    ELSE worker

\* @work(exclusive=True): the workers after _handle_user_input(user_message)
\* is called: the other workers are cancelled and a new one is created,
\* which starts when the event loop runs its task
_handle_user_input(ws, user_message) ==
    Append([w \in 1..Len(ws) |-> cancel(ws[w])],
           Worker(user_message, "created", "none", 0))

\* on_input_submitted for the chat input with value text: the workers after it
on_input_submitted(generating, ws, text) ==
    IF ~generating /\ Strip(text) # <<>>
    THEN _handle_user_input(ws, HumanMessage(Strip(text)))
    ELSE ws

\* The workers whose turn is in flight: accepted and not finished
InFlight == {w \in 1..Len(workers) : workers[w].pc \in {"created", "streaming", "awaiting"}}

\* The chunks the workers ws have consumed
RECURSIVE consumed(_)
consumed(ws) == IF ws = <<>> THEN 0 ELSE Head(ws).chunks + consumed(Tail(ws))

turnIdle == <<os_name, disk, result, raised, calls, bashVars, dirs, uiVars>>

\* The user submits the chat input
InputSubmitted ==
    \E text \in {<<"h", "i">>, <<" ">>} :
        /\ Len(workers) < MaxTurns
        /\ workers' = on_input_submitted(_is_generating, workers, text)
        /\ event' = [handler |-> "on_input_submitted"]
        /\ UNCHANGED <<messages, tasks, _is_generating, turnIdle>>

\* The task of a worker starts: _handle_user_input up to the first chunk
WorkerStarts ==
    \E w \in 1..Len(workers) :
        /\ workers[w].pc = "created"
        /\ messages' = Append(messages, workers[w].user_message)
        /\ _is_generating' = TRUE
        /\ workers' = [workers EXCEPT ![w].pc = "streaming", ![w].loading = "running"]
        /\ event' = [handler |-> "_handle_user_input"]
        /\ UNCHANGED <<tasks, turnIdle>>

\* The messages a chunk of the agent stream brings
StreamMessages ==
    {AIMessage(<<"o", "k">>), ToolMessage("bash", <<"x">>, [command |-> <<"l", "s">>])}

\* The stream yields a chunk with a message
StreamYields ==
    \E w \in 1..Len(workers), message \in StreamMessages :
        /\ workers[w].pc = "streaming"
        /\ consumed(workers) < MaxChunks
        /\ messages' = _process_incoming_message(message, messages, tasks).messages
        /\ tasks' = _process_incoming_message(message, messages, tasks).tasks
        /\ workers' = [workers EXCEPT ![w].chunks = @ + 1]
        /\ event' = [handler |-> "_process_incoming_message"]
        /\ UNCHANGED <<_is_generating, turnIdle>>

\* The stream is exhausted
StreamEnds ==
    \E w \in 1..Len(workers) :
        /\ workers[w].pc = "streaming"
        /\ workers' = [workers EXCEPT ![w] = after_stream(workers[w])]
        /\ event' = [handler |-> "_handle_user_input"]
        /\ UNCHANGED <<messages, tasks, _is_generating, turnIdle>>

\* The stream, or the processing of a message, raises an Exception
StreamRaises ==
    \E w \in 1..Len(workers) :
        /\ workers[w].pc = "streaming"
        /\ messages' = Append(messages, AIMessage(<<"e", "r", "r", "o", "r", "_", "m", "e", "s", "s", "a", "g", "e">>))
        /\ workers' = [workers EXCEPT ![w] = after_stream(workers[w])]
        /\ event' = [handler |-> "_handle_user_input"]
        /\ UNCHANGED <<tasks, _is_generating, turnIdle>>

\* _show_loading_animation: one turn of its loop, which ends when
\* is_generating is false (the text of the indicator is not modelled)
LoadingAnimates ==
    \E w \in 1..Len(workers) :
        /\ workers[w].loading = "running"
        /\ workers' = IF _is_generating
                      THEN workers
                      ELSE [workers EXCEPT ![w].loading = "done"]
        /\ event' = [handler |-> "_show_loading_animation"]
        /\ UNCHANGED <<messages, tasks, _is_generating, turnIdle>>

\* _show_loading_animation gets CancelledError and returns
LoadingCancelled ==
    \E w \in 1..Len(workers) :
        /\ workers[w].loading = "cancelling"
        /\ workers' = [workers EXCEPT ![w].loading = "done"]
        /\ event' = [handler |-> "_show_loading_animation"]
        /\ UNCHANGED <<messages, tasks, _is_generating, turnIdle>>

\* await loading_task returns: the rest of the finally block
WorkerFinishes ==
    \E w \in 1..Len(workers) :
        /\ workers[w].pc = "awaiting"
        /\ workers[w].loading = "done"
        /\ _is_generating' = FALSE
        /\ workers' = [workers EXCEPT ![w].pc = "done"]
        /\ event' = [handler |-> "_handle_user_input"]
        /\ UNCHANGED <<messages, tasks, turnIdle>>

\* The task that handles the oldest tool message runs
TurnHandleToolResult ==
    /\ tasks # <<>>
    /\ SetUi(handle_tool_result(disk, UiNow, Head(tasks).name, Head(tasks).content))
    /\ \E added \in BOOLEAN :
          messages' = IF added
                      THEN Append(messages, ResultMessage(Head(tasks).content))
                      ELSE messages
    /\ tasks' = Tail(tasks)
    /\ event' = [handler |-> "handle_tool_result", message |-> Head(tasks),
                 before |-> UiNow, disk |-> disk]
    /\ UNCHANGED <<os_name, disk, result, raised, calls, bashVars, dirs,
                   _is_generating, workers>>

WorkerStep == WorkerStarts \/ StreamYields \/ StreamEnds \/ StreamRaises \/ WorkerFinishes

NextTurns ==
    \/ InputSubmitted
    \/ WorkerStarts
    \/ StreamYields
    \/ StreamEnds
    \/ StreamRaises
    \/ LoadingAnimates
    \/ LoadingCancelled
    \/ WorkerFinishes
    \/ TurnHandleToolResult

SpecTurns == InitSync /\ [][NextTurns]_vars

\* The event loop runs every task that can run: a worker that was created
\* starts, a stream yields, ends or raises, a cancelled indicator task
\* returns, and a worker whose indicator task is done finishes
SpecTurnsFair ==
    /\ SpecTurns
    /\ WF_vars(WorkerStarts)
    /\ WF_vars(StreamYields \/ StreamEnds \/ StreamRaises)
    /\ WF_vars(LoadingCancelled)
    /\ WF_vars(WorkerFinishes)

\* C16: in every interleaving of submissions and worker steps at most one
\* generation turn is in flight, where a turn is in flight from the moment
\* on_input_submitted accepted its submission until its worker has finished:
\* while a turn is in flight no step starts a second turn and no step
\* cancels the turn in flight.
C16_OneTurnInFlight ==
    /\ [](Cardinality(InFlight) <= 1)
    /\ [][InFlight # {} =>
            /\ Len(workers') = Len(workers)
            /\ \A w \in InFlight : workers'[w].pc # "cancelled"]_vars

\* Turn w has started: its worker consumes the agent stream
TurnStarted(w) == Len(workers) >= w /\ workers[w].pc = "streaming"

\* Turn w has ended: its worker has finished
TurnEnded(w) == Len(workers) >= w /\ workers[w].pc = "done"

\* C17: every turn that starts eventually ends with its indicator task
\* cancelled and is_generating false, whether the stream completes or
\* raises; the indicator task of a turn that has ended is never running;
\* and is_generating is never false while a turn consumes the stream.
C17_TurnsEnd ==
    /\ \A w \in 1..MaxTurns :
          TurnStarted(w) ~>
              (TurnEnded(w) /\ workers[w].loading = "done" /\ ~_is_generating)
    /\ [](\A w \in 1..MaxTurns : TurnEnded(w) => workers[w].loading = "done")
    /\ [](\A w \in 1..MaxTurns : TurnStarted(w) => _is_generating)

\* A turn whose stream raised has ended, and the input is enabled again
C17_Witness ==
    /\ \E w \in 1..MaxTurns : TurnEnded(w) /\ workers[w].loading = "done"
    /\ ~_is_generating
    /\ \E i \in 1..Len(messages) :
          messages[i].type = "ai" /\ messages[i].content = <<"e", "r", "r", "o", "r", "_", "m", "e", "s", "s", "a", "g", "e">>

-----------------------------------------------------------------------------
(* Ranged views *)

InvalidStart == "Error: Invalid 'view_range': {view_range}. The start line '{init_line}' should be within the range of lines in the file: {[1, n_lines_file]}"
InvalidEnd == "Error: Invalid 'view_range': {view_range}. The end line '{final_line}' should be -1 or within the range of lines in the file: {[init_line, n_lines_file]}"

\* The last call was view(FILE_A, [s, e]) of an existing file
ViewedWithRange(c) ==
    /\ c.command = "view" /\ c.path = FILE_A
    /\ is_file(c.before, FILE_A)
    /\ Len(c.view_range) = 2

\* The number of lines of the file the call c worked on
total_lines(c) == Len(LinesOf(c.before[FILE_A]))

\* The range [s, e] is one the view must reject
RangeRejected(c) ==
    \/ c.view_range[1] < 1
    \/ c.view_range[1] > total_lines(c)
    \/ (c.view_range[2] # -1 /\ c.view_range[2] < c.view_range[1])

\* body shows the lines s through the last one the range asks for
ShowsThrough(c, body) ==
    LET s == c.view_range[1]
        e == c.view_range[2]
        last == IF e = -1 \/ e > total_lines(c) THEN total_lines(c) ELSE e
    IN  /\ Len(body) = last - s + 1
        /\ \A i \in 1..Len(body) :
              body[i] = [num |-> s + i - 1, line |-> LinesOf(c.before[FILE_A])[s + i - 1]]

\* C21: view(F, [s, e]) is rejected with an invalid-range error when s < 1 or
\* s > total_lines, and when e is not -1 and e < s, and a rejected view
\* changes nothing; otherwise the view succeeds and shows the lines s through
\* e, through the last line when e is -1 or e > total_lines.
C21_ViewRangeValidated ==
    (calls # <<>> /\ ViewedWithRange(LastCall)) =>
        IF RangeRejected(LastCall)
        THEN result.text \in {InvalidStart, InvalidEnd} /\ disk = LastCall.before
        ELSE result.text = ViewText /\ ShowsThrough(LastCall, result.body)

-----------------------------------------------------------------------------
(* Inserts *)

InsertLineNegative == "Error: Invalid insert_line: {insert_line}. Line number must be >= 0."
InsertLineTooLarge == "Error: Invalid insert_line: {insert_line}. Line number cannot be greater than the number of lines in the file ({num_lines})."

\* The last call was insert(FILE_A, k, T) on an existing file
InsertedInto(c) ==
    /\ c.command = "insert" /\ c.path = FILE_A
    /\ is_file(c.before, FILE_A)
    /\ c.insert_line # <<>> /\ c.new_str # None

\* The lines T occupies once it has its terminator
OwnLines(T) == LinesOf(IF EndsWithNewline(T) THEN T ELSE T \o <<LF>>)

\* The lines of the file after T went in behind line k
LinesAfterInsert(L, k, T) == SubSeq(L, 1, k) \o OwnLines(T) \o SubSeq(L, k + 1, Len(L))

\* C22: for a file with lines L1..Ln and 0 <= k <= n, insert(F, k, T) yields
\* the file whose lines are L1..Lk, the lines of T, Lk+1..Ln; insert with
\* k < 0 or k > n returns an invalid-insert-line error and leaves the file
\* unchanged.
C22_InsertPlacesLines ==
    (calls # <<>> /\ InsertedInto(LastCall)) =>
        LET c == LastCall
            L == LinesOf(c.before[FILE_A])
            k == c.insert_line[1]
        IN  IF 0 <= k /\ k <= Len(L)
            THEN /\ result.text = InsertedText
                 /\ LinesOf(disk[FILE_A]) = LinesAfterInsert(L, k, c.new_str)
            ELSE /\ result.text \in {InsertLineNegative, InsertLineTooLarge}
                 /\ disk = c.before

-----------------------------------------------------------------------------
(* Replacements of a string that may be missing *)

StringNotFound == "Error: String not found in file: {path}"

\* The last call was str_replace(FILE_A, old, new) on an existing file
ReplacedIn(c) ==
    /\ c.command = "str_replace" /\ c.path = FILE_A
    /\ is_file(c.before, FILE_A)
    /\ c.old_str # None /\ c.new_str # None

\* The call succeeded when old occurs in content, and otherwise returned the
\* string-not-found error naming the file and left the disk as it was
SucceedsIffIn(c, content) ==
    IF Contains(content, c.old_str)
    THEN result.text = ReplacedText
    ELSE /\ result.text = StringNotFound /\ result.path = FILE_A
         /\ disk = c.before

-----------------------------------------------------------------------------
(* Replacements without a new string *)

\* The last call was str_replace(FILE_A, old) without new_str, on a file in
\* whose content old occurs
DeletionAsked(c) ==
    /\ c.command = "str_replace" /\ c.path = FILE_A
    /\ is_file(c.before, FILE_A)
    /\ c.old_str # None /\ c.new_str = None
    /\ Contains(read_file(c.before, FILE_A), c.old_str)

\* C24: a str_replace call with an old_str that occurs in the file and no
\* new_str deletes every occurrence of old_str, as a replacement by the empty
\* string does, and reports the number of occurrences removed.
C24_AbsentNewDeletes ==
    (calls # <<>> /\ DeletionAsked(LastCall)) =>
        /\ result.text = ReplacedText
        /\ result.num = Occurrences(read_file(LastCall.before, FILE_A), LastCall.old_str)
        /\ read_file(disk, FILE_A) =
              PyReplace(read_file(LastCall.before, FILE_A), LastCall.old_str, <<>>)

-----------------------------------------------------------------------------
(* The lines a search reports *)

\* The last call searched the one readable file notes.md
SearchedNotes(c) ==
    /\ c.tool = "grep" /\ c.paths = <<P_NOTES>>
    /\ path_is_file(dirs, P_NOTES) /\ dirs[P_NOTES].readable

\* The numbers of the lines of text that the search for pattern must report
LinesToReport(text, pattern, case_sensitive, invert) ==
    {i \in 1..Len(LinesOf(text)) :
        (IF case_sensitive THEN Contains(LinesOf(text)[i], pattern)
         ELSE Contains(lower(LinesOf(text)[i]), lower(pattern))) # invert}

\* C25: search reports line i of a searched file exactly when 'pattern is a
\* substring of line i' (both lowercased when case_sensitive is false)
\* differs from invert, also for a pattern with leading or trailing
\* whitespace; the reported lines are in increasing order and the count in
\* the header is their number.
C25_ReportsMatchingLines ==
    (calls # <<>> /\ SearchedNotes(LastCall)) =>
        LET c == LastCall
            expected == LinesToReport(dirs[P_NOTES].text, c.pattern,
                                      c.case_sensitive, c.invert)
        IN  /\ raised = ""
            /\ IF expected = {} THEN result.text = NoMatches
               ELSE /\ result.text = MatchesFor
                    /\ result.num = Len(result.body)
                    /\ {result.body[j].line_num : j \in 1..Len(result.body)} = expected
                    /\ \A j \in 1..Len(result.body) : result.body[j].file = P_NOTES
                    /\ \A j \in 1..(Len(result.body) - 1) :
                          result.body[j].line_num < result.body[j + 1].line_num

-----------------------------------------------------------------------------
(* The entries of a tree *)

\* The name of q passes the filters of the call: it matches a match pattern
\* (any name does when match is absent or empty) and no ignore pattern, of
\* the caller or default
PassesFilters(q, match, ignore) ==
    /\ (match = NoneList \/ match = <<>>
          \/ \E i \in 1..Len(match) : fnmatch(path_name(q), match[i]))
    /\ ignore # NoneList => \A i \in 1..Len(ignore) : ~fnmatch(path_name(q), ignore[i])
    /\ \A i \in 1..Len(DEFAULT_IGNORE_PATTERNS) :
          ~fnmatch(path_name(q), DEFAULT_IGNORE_PATTERNS[i])

\* The entries the tree of the call c is to list: those below the root, no
\* deeper than max_depth, unfiltered and reached through unfiltered
\* directories that can be read
TreeEntries(c) ==
    {q \in NodePaths :
        /\ Len(q) > Len(c.path) /\ SubSeq(q, 1, Len(c.path)) = c.path
        /\ dirs[q].kind # "absent"
        /\ c.max_depth # <<>> => Len(q) - Len(c.path) <= c.max_depth[1]
        /\ PassesFilters(q, c.match, c.ignore)
        /\ \A k \in Len(c.path)..(Len(q) - 1) :
              /\ dirs[SubSeq(q, 1, k)].kind = "dir" /\ dirs[SubSeq(q, 1, k)].readable
              /\ k > Len(c.path) => PassesFilters(SubSeq(q, 1, k), c.match, c.ignore)}

\* The entry lines of a tree, and the depth of a line
EntryLines(body) == SelectSeq(body, LAMBDA line : line.kind = "entry")
LineDepth(line) == Len(line.prefix) + 1

\* Line i is the directory under which line j is listed
IsParentLine(E, i, j) ==
    /\ i < j /\ LineDepth(E[i]) = LineDepth(E[j]) - 1
    /\ \A m \in (i + 1)..(j - 1) : LineDepth(E[m]) >= LineDepth(E[j])

\* The path of the entry of line j
RECURSIVE LinePath(_, _, _)
LinePath(E, j, root) ==
    IF LineDepth(E[j]) = 1 \/ ~\E i \in 1..(j - 1) : IsParentLine(E, i, j)
    THEN Append(root, E[j].name)
    ELSE Append(LinePath(E, CHOOSE i \in 1..(j - 1) : IsParentLine(E, i, j), root),
                E[j].name)

\* Depth first: every line below depth 1 is listed under a directory
DepthFirst(E) ==
    \A j \in 1..Len(E) :
        LineDepth(E[j]) > 1 => \E i \in 1..(j - 1) : IsParentLine(E, i, j) /\ E[i].is_dir

\* The entries of one directory are sorted, directories first
SiblingsSorted(E) ==
    \A i, j \in 1..Len(E) :
        (/\ i < j /\ LineDepth(E[i]) = LineDepth(E[j])
         /\ \A m \in (i + 1)..(j - 1) : LineDepth(E[m]) >= LineDepth(E[j])) =>
            /\ ~(~E[i].is_dir /\ E[j].is_dir)
            /\ E[i].is_dir = E[j].is_dir => str_less(lower(E[i].name), lower(E[j].name))

\* The last call was a tree of a directory
TreeOfDirectory(c) ==
    c.tool = "tree" /\ path_is_absolute(c.path) /\ path_is_dir(dirs, c.path)

\* C26: tree(root, max_depth = d) lists exactly the unfiltered entries at
\* depths 1..d (only the root line for d = 0), and with max_depth absent every
\* entry reachable through unfiltered directories, each exactly once, in
\* depth-first order, the entries of each directory following it sorted
\* directories first.
C26_TreeListsEntries ==
    (calls # <<>> /\ TreeOfDirectory(LastCall)) =>
        LET E == EntryLines(result.body)
        IN  /\ result.text = DirectoryTree
            /\ result.body[1].kind = "root"
            /\ {LinePath(E, j, LastCall.path) : j \in 1..Len(E)} = TreeEntries(LastCall)
            /\ Len(E) = Cardinality(TreeEntries(LastCall))
            /\ DepthFirst(E)
            /\ SiblingsSorted(E)

-----------------------------------------------------------------------------
(* One call of the command executor *)

\* _execute_command(command, cwd) is called once, with any command and cwd
ExecuteCall ==
    /\ event.handler = "on_mount"
    /\ \E command \in Commands, dir \in Cwds :
          \E outcome \in PossibleOutcomes(dir) :
              /\ last_result' = _execute_command(disk, command, dir, outcome).result
              /\ spawn_calls' = _execute_command(disk, command, dir, outcome).spawned
              /\ event' = [handler |-> "_execute_command", command |-> command,
                           cwd |-> dir]
    /\ UNCHANGED <<os_name, disk, result, raised, calls, command_history, n_calls,
                   dirs, _open_files, _current_file, text_area, tabs, messages,
                   tasks, _is_generating, workers>>

SpecExecute == InitBash /\ [][ExecuteCall]_vars

\* The cwd of the call was given and is not an absolute path of an existing
\* directory
BadCwd(dir) == dir # None /\ ~(is_absolute(dir) /\ is_dir(disk, dir))

\* C27: when the cwd given to the executor is not an absolute path of an
\* existing directory (relative, missing, a regular file, or the empty
\* string), the result is a failure with success false and a negative exit
\* code, and no subprocess is spawned.
C27_BadCwdSpawnsNothing ==
    (event.handler = "_execute_command" /\ BadCwd(event.cwd)) =>
        /\ ~last_result.success
        /\ last_result.return_code < 0
        /\ spawn_calls = 0

-----------------------------------------------------------------------------
(* The current file and the cache *)

\* Results of every kind arrive and are handled while the user types, saves
\* and presses tab buttons: the view of a file, the creation of another, and
\* a view-style result for a file that may not be on disk
EditorMessage ==
    \E call \in {c \in EditorToolCalls :
                    \/ c.command = "view" /\ c.path = FILE_PY
                    \/ c.command = "create" /\ c.path = FILE_A} :
        CallMessage(call)

FencedViewMessage ==
    ViewStyleArrives([name |-> "text_editor", path |-> FILE_A, form |-> "slash",
                      fenced |-> TRUE])

NextEditor ==
    \/ EditorMessage
    \/ FencedViewMessage
    \/ HandleToolResult
    \/ TextAreaChanged
    \/ SaveButtonPressed
    \/ TabButtonPressed

SpecEditor == InitSync /\ [][NextEditor]_vars

\* C28: in every reachable state of the editor, after any sequence of tool
\* results, tab presses, saves and text changes, _current_file is unset or a
\* key of _open_files.
C28_CurrentFileIsCached == _current_file = None \/ _current_file \in DOMAIN _open_files

\* A view of a file that is not on disk made the file current, from the
\* fenced block of the result
C28_Witness ==
    /\ event.handler = "handle_tool_result"
    /\ _current_file # None
    /\ ~exists(disk, _current_file)
    /\ _current_file \in DOMAIN _open_files
    /\ Cardinality(DOMAIN _open_files) >= 2

-----------------------------------------------------------------------------
(* Edits of a file that is not displayed *)

MaxBackground == 3

\* The agent views two files and edits the first
BackgroundMessage ==
    \E call \in {c \in EditorToolCalls :
                    \/ c.command = "view" /\ c.path \in {FILE_A, FILE_PY}
                    \/ c.command \in {"create", "insert"} /\ c.path = FILE_A} :
        CallMessageWithin(call, MaxBackground)

NextBackground == BackgroundMessage \/ HandleToolResult

SpecBackground == InitSync /\ [][NextBackground]_vars

\* The result handled last is that of an edit of a file that was not displayed
BackgroundEditHandled ==
    /\ event.handler = "handle_tool_result"
    /\ event.message.name = "text_editor"
    /\ event.message.call.command \in {"create", "str_replace", "insert"}
    /\ event.message.call.path # event.before._current_file

\* C29: processing the result of a create, str_replace or insert on a path
\* that is not the displayed file leaves _current_file unchanged, also when
\* the path has an entry in _open_files.
C29_BackgroundEditKeepsCurrent ==
    BackgroundEditHandled => _current_file = event.before._current_file

-----------------------------------------------------------------------------
(* The number of lines of a file *)

\* The numbered lines the unranged view of the file of the call c displays
DisplayedLines(c) == view(c.before, FILE_A, <<>>).body

\* The unranged view displays a line numbered k
DisplaysLine(c, k) == \E i \in 1..Len(DisplayedLines(c)) : DisplayedLines(c)[i].num = k

\* The view accepted its start, the insert accepted its insert_line
StartAccepted == result.text # InvalidStart
InsertLineAccepted == result.text \notin {InsertLineNegative, InsertLineTooLarge}

\* The insert half of C30: insert accepts insert_line = k exactly when k is
\* between 0 and the number of lines the unranged view displays
InsertAgreesWithDisplay ==
    (calls # <<>> /\ InsertedInto(LastCall)) =>
        (InsertLineAccepted <=>
            (0 <= LastCall.insert_line[1]
             /\ LastCall.insert_line[1] <= Len(DisplayedLines(LastCall))))

\* The view half of C30: view accepts start = k exactly when the unranged
\* view of the file displays a line numbered k
ViewAgreesWithDisplay ==
    (calls # <<>> /\ ViewedWithRange(LastCall)) =>
        (StartAccepted <=> DisplaysLine(LastCall, LastCall.view_range[1]))

\* C30: view, insert and the numbered display agree on the number of lines of
\* a file, for every content including one that ends with a newline and the
\* empty file: view accepts start = k exactly when the unranged view displays
\* a line numbered k, and insert accepts insert_line = k exactly when k is
\* between 0 and that same number of lines.
C30_LineCountsAgree == ViewAgreesWithDisplay /\ InsertAgreesWithDisplay

=============================================================================
